---- MODULE Spec2Model ----
(***************************************************************************)
(* TTLV encoder of encode_ttlv.py: the EncodeTTLV class (buffer and         *)
(* attribute_name), its encode_ttlv operation with the per-type value       *)
(* encoders and the enumeration lookups, and encode_ttlv_structure; the     *)
(* structured notation (parse_structured_text, convert_structured_to_flat,  *)
(* encode_from_structured_text, and the renderer of decode_ttlv.py); the    *)
(* file loaders of the command line and the converters of helpers/.         *)
(*                                                                          *)
(* Four specifications: Spec (calls of encode_ttlv on one encoder),         *)
(* SpecPasses (passes of encode_ttlv_structure), SpecText (the steps of     *)
(* encode_from_structured_text) and SpecFiles (runs of the command line and *)
(* of the converters).                                                      *)
(*                                                                          *)
(* Representation.  A byte is a number in 0..255 and a buffer a sequence of *)
(* bytes.  A Python str is the sequence of its code points.  A Python int   *)
(* is unbounded, so it is kept as sign and magnitude, the magnitude being   *)
(* the big-endian bytes without leading zeros: [neg, mag].  A Python value  *)
(* is a record [k, n, s, kids] whose k names the Python type ("int", "str", *)
(* "bytes", "list", "none") and whose other fields hold the int, the str or *)
(* bytes, and the list's items.  An element of a list is [wf, tag, type,    *)
(* value]; wf says that it is a dict with the keys 'tag', 'type', 'value'.  *)
(***************************************************************************)
EXTENDS Integers, Sequences, FiniteSets, TLC

VARIABLES buffer, attribute_name, calls, last, encs, plist, pidx, pstatus, starts,
          text_content, structured_elements, flat_elements, text_encoder, tpc,
          command, file_content, loaded, json_data, csv_rows, file_encoder, fpc

\* the encoders of the calls and of the passes
encvars == <<buffer, attribute_name, calls, last, encs, plist, pidx, pstatus, starts>>

\* the locals of encode_from_structured_text and the statement it is at
textvars == <<text_content, structured_elements, flat_elements, text_encoder, tpc>>

\* a run of the command line or of a converter: the option or converter chosen, the
\* content of the input file, the elements loaded from it, what the converters
\* return, the encoder of the loaded elements and the statement the run is at
filevars == <<command, file_content, loaded, json_data, csv_rows, file_encoder, fpc>>

vars == <<encvars, textvars, filevars>>

(* ------------------------------ bounds -------------------------------- *)

\* encode_ttlv calls made on the one encoder of Spec
MaxCalls == 2
\* longest text and byte string of the generated families, in characters/bytes
MaxTextLen == 9
\* encode_ttlv_structure passes started per slot in SpecPasses
MaxStarts == 2

(* --------------------------- bytes and ints --------------------------- *)

Zeros(n) == [i \in 1..n |-> 0]

Repeat(x, n) == [i \in 1..n |-> x]

RECURSIVE NatBytes(_)
NatBytes(n) == IF n = 0 THEN <<>> ELSE Append(NatBytes(n \div 256), n % 256)

\* the Python int of a small number
I(n) == IF n < 0 THEN [neg |-> TRUE, mag |-> NatBytes(0 - n)]
                 ELSE [neg |-> FALSE, mag |-> NatBytes(n)]

\* the number a big-endian byte sequence denotes (below 2^31)
RECURSIVE BytesNat(_)
BytesNat(b) == IF b = <<>> THEN 0
               ELSE (256 * BytesNat(SubSeq(b, 1, Len(b) - 1))) + b[Len(b)]

PadLeft(b, w) == Zeros(w - Len(b)) \o b

RECURSIVE Dec(_)
Dec(b) == LET n == Len(b)
          IN IF b[n] > 0 THEN [b EXCEPT ![n] = b[n] - 1]
             ELSE Append(Dec(SubSeq(b, 1, n - 1)), 255)

Invert(b) == [i \in 1..Len(b) |-> 255 - b[i]]

FitsUnsigned(v, w) == ~v.neg /\ Len(v.mag) <= w

FitsSigned(v, w) ==
    \/ Len(v.mag) < w
    \/ /\ Len(v.mag) = w
       /\ \/ v.mag[1] < 128
          \/ v.neg /\ v.mag[1] = 128 /\ \A i \in 2..w : v.mag[i] = 0

TwosComplement(v, w) == IF v.neg THEN Invert(Dec(PadLeft(v.mag, w)))
                                 ELSE PadLeft(v.mag, w)

Raise == [ok |-> FALSE, bytes |-> <<>>]

\* a variant of struct.pack that keeps the low w bytes of a value out of range
PackSignedWrapping(v, w) ==
    [ok |-> TRUE,
     bytes |-> SubSeq(TwosComplement(v, Len(v.mag) + w), Len(v.mag) + 1, Len(v.mag) + w)]

\* struct.pack(">i" / ">q" / ">h", v): big-endian two's complement in w bytes,
\* struct.error when v is out of range
PackSigned(v, w) == IF FitsSigned(v, w) THEN [ok |-> TRUE, bytes |-> TwosComplement(v, w)]
                    ELSE Raise

\* struct.pack(">B" / ">I" / ">Q", v): big-endian unsigned in w bytes
PackUnsigned(v, w) == IF FitsUnsigned(v, w) THEN [ok |-> TRUE, bytes |-> PadLeft(v.mag, w)]
                      ELSE Raise

\* v & 0xFFFF: the low 16 bits of the two's complement of v
TagMask == 65535

Low16(v) == LET p == PadLeft(v.mag, Len(v.mag) + 2)
                m == BytesNat(SubSeq(p, Len(p) - 1, Len(p)))
            IN  IF v.neg THEN ((TagMask + 1) - m) % (TagMask + 1) ELSE m

(* ------------------------------- UTF-8 -------------------------------- *)

\* str.encode('utf-8') of one code point (no surrogates among the inputs)
Utf8Char(c) ==
    IF c < 128 THEN <<c>>
    ELSE IF c < 2048 THEN <<192 + (c \div 64), 128 + (c % 64)>>
    ELSE IF c < 65536 THEN <<224 + (c \div 4096), 128 + ((c \div 64) % 64), 128 + (c % 64)>>
    ELSE <<240 + (c \div 262144), 128 + ((c \div 4096) % 64), 128 + ((c \div 64) % 64),
           128 + (c % 64)>>

RECURSIVE Utf8(_)
Utf8(s) == IF s = <<>> THEN <<>> ELSE Utf8Char(Head(s)) \o Utf8(Tail(s))

IsCont(b, i) == i <= Len(b) /\ b[i] >= 128 /\ b[i] <= 191

\* bytes.decode('utf-8'): [ok, s]; ok is FALSE for UnicodeDecodeError
RECURSIVE Utf8Decode(_)
Utf8Decode(b) ==
    IF b = <<>> THEN [ok |-> TRUE, s |-> <<>>]
    ELSE LET h == b[1]
             n == IF h < 128 THEN 1
                  ELSE IF h >= 194 /\ h <= 223 /\ IsCont(b, 2) THEN 2
                  ELSE IF /\ h >= 224 /\ h <= 239 /\ IsCont(b, 2) /\ IsCont(b, 3)
                          /\ (h = 224 => b[2] >= 160) /\ (h = 237 => b[2] <= 159) THEN 3
                  ELSE IF /\ h >= 240 /\ h <= 244 /\ IsCont(b, 2) /\ IsCont(b, 3) /\ IsCont(b, 4)
                          /\ (h = 240 => b[2] >= 144) /\ (h = 244 => b[2] <= 143) THEN 4
                  ELSE 0
             c == IF n = 1 THEN h
                  ELSE IF n = 2 THEN ((h - 192) * 64) + (b[2] - 128)
                  ELSE IF n = 3 THEN ((h - 224) * 4096) + ((b[2] - 128) * 64) + (b[3] - 128)
                  ELSE ((h - 240) * 262144) + ((b[2] - 128) * 4096) + ((b[3] - 128) * 64) + (b[4] - 128)
         IN  IF n = 0 THEN [ok |-> FALSE, s |-> <<>>]
             ELSE LET r == Utf8Decode(SubSeq(b, n + 1, Len(b)))
                  IN  [ok |-> r.ok, s |-> IF r.ok THEN <<c>> \o r.s ELSE <<>>]

(* ------------------------------ strings ------------------------------- *)

s_Tags == <<84, 97, 103, 115>>
s_Types == <<84, 121, 112, 101, 115>>
s_ATTRIBUTE_NAME == <<65, 84, 84, 82, 73, 66, 85, 84, 69, 95, 78, 65, 77, 69>>
s_ATTRIBUTE_VALUE == <<65, 84, 84, 82, 73, 66, 85, 84, 69, 95, 86, 65, 76, 85, 69>>
s_ATTRIBUTE == <<65, 84, 84, 82, 73, 66, 85, 84, 69>>
s_OPERATION == <<79, 80, 69, 82, 65, 84, 73, 79, 78>>
s_BATCH_COUNT == <<66, 65, 84, 67, 72, 95, 67, 79, 85, 78, 84>>
s_BATCH_ITEM == <<66, 65, 84, 67, 72, 95, 73, 84, 69, 77>>
s_REQUEST_MESSAGE == <<82, 69, 81, 85, 69, 83, 84, 95, 77, 69, 83, 83, 65, 71, 69>>
s_REQUEST_HEADER == <<82, 69, 81, 85, 69, 83, 84, 95, 72, 69, 65, 68, 69, 82>>
s_REQUEST_PAYLOAD == <<82, 69, 81, 85, 69, 83, 84, 95, 80, 65, 89, 76, 79, 65, 68>>
s_OBJECT_TYPE == <<79, 66, 74, 69, 67, 84, 95, 84, 89, 80, 69>>
s_OBJECT_GROUP == <<79, 66, 74, 69, 67, 84, 95, 71, 82, 79, 85, 80>>
s_CREDENTIAL_TYPE == <<67, 82, 69, 68, 69, 78, 84, 73, 65, 76, 95, 84, 89, 80, 69>>
s_CRYPTOGRAPHIC_ALGORITHM == <<67, 82, 89, 80, 84, 79, 71, 82, 65, 80, 72, 73, 67, 95, 65, 76, 71, 79, 82, 73, 84, 72, 77>>
s_CRYPTOGRAPHIC_LENGTH == <<67, 82, 89, 80, 84, 79, 71, 82, 65, 80, 72, 73, 67, 95, 76, 69, 78, 71, 84, 72>>
s_STATE == <<83, 84, 65, 84, 69>>
s_USERNAME == <<85, 83, 69, 82, 78, 65, 77, 69>>
s_NO_SUCH_TAG == <<78, 79, 95, 83, 85, 67, 72, 95, 84, 65, 71>>
s_STRUCTURE == <<83, 84, 82, 85, 67, 84, 85, 82, 69>>
s_INTEGER == <<73, 78, 84, 69, 71, 69, 82>>
s_LONG_INTEGER == <<76, 79, 78, 71, 95, 73, 78, 84, 69, 71, 69, 82>>
s_BIG_INTEGER == <<66, 73, 71, 95, 73, 78, 84, 69, 71, 69, 82>>
s_ENUMERATION == <<69, 78, 85, 77, 69, 82, 65, 84, 73, 79, 78>>
s_BOOLEAN == <<66, 79, 79, 76, 69, 65, 78>>
s_TEXT_STRING == <<84, 69, 88, 84, 95, 83, 84, 82, 73, 78, 71>>
s_BYTE_STRING == <<66, 89, 84, 69, 95, 83, 84, 82, 73, 78, 71>>
s_DATE_TIME == <<68, 65, 84, 69, 95, 84, 73, 77, 69>>
s_INTERVAL == <<73, 78, 84, 69, 82, 86, 65, 76>>
s_DATE_TIME_EXTENDED == <<68, 65, 84, 69, 95, 84, 73, 77, 69, 95, 69, 88, 84, 69, 78, 68, 69, 68>>
s_X_509_CERTIFICATE_IDENTIFIER == <<88, 95, 53, 48, 57, 95, 67, 69, 82, 84, 73, 70, 73, 67, 65, 84, 69, 95, 73, 68, 69, 78, 84, 73, 70, 73, 69, 82>>
s_FLOAT == <<70, 76, 79, 65, 84>>
s_State == <<83, 116, 97, 116, 101>>
s_CryptographicUsageMask == <<67, 114, 121, 112, 116, 111, 103, 114, 97, 112, 104, 105, 99, 85, 115, 97, 103, 101, 77, 97, 115, 107>>
s_CryptographicAlgorithm == <<67, 114, 121, 112, 116, 111, 103, 114, 97, 112, 104, 105, 99, 65, 108, 103, 111, 114, 105, 116, 104, 109>>
s_ObjectType == <<79, 98, 106, 101, 99, 116, 84, 121, 112, 101>>
s_Operation == <<79, 112, 101, 114, 97, 116, 105, 111, 110>>
s_CredentialType == <<67, 114, 101, 100, 101, 110, 116, 105, 97, 108, 84, 121, 112, 101>>
s_AES == <<65, 69, 83>>
s_DES == <<68, 69, 83>>
s_TRIPLE_DES == <<84, 82, 73, 80, 76, 69, 95, 68, 69, 83>>
s_RSA == <<82, 83, 65>>
s_DSA == <<68, 83, 65>>
s_SYMMETRIC_KEY == <<83, 89, 77, 77, 69, 84, 82, 73, 67, 95, 75, 69, 89>>
s_PUBLIC_KEY == <<80, 85, 66, 76, 73, 67, 95, 75, 69, 89>>
s_PRIVATE_KEY == <<80, 82, 73, 86, 65, 84, 69, 95, 75, 69, 89>>
s_CERTIFICATE == <<67, 69, 82, 84, 73, 70, 73, 67, 65, 84, 69>>
s_USERNAME_AND_PASSWORD == <<85, 83, 69, 82, 78, 65, 77, 69, 95, 65, 78, 68, 95, 80, 65, 83, 83, 87, 79, 82, 68>>
s_DEVICE_SPECIFIC == <<68, 69, 86, 73, 67, 69, 95, 83, 80, 69, 67, 73, 70, 73, 67>>
s_SPLIT_KEY == <<83, 80, 76, 73, 84, 95, 75, 69, 89>>
s_TEMPLATE == <<84, 69, 77, 80, 76, 65, 84, 69>>
s_SECRET_DATA == <<83, 69, 67, 82, 69, 84, 95, 68, 65, 84, 65>>
s_OPAQUE_DATA == <<79, 80, 65, 81, 85, 69, 95, 68, 65, 84, 65>>
s_DEFAULT == <<68, 69, 70, 65, 85, 76, 84>>
s_NONE == <<78, 79, 78, 69>>
s_PRE_ACTIVE == <<80, 82, 69, 95, 65, 67, 84, 73, 86, 69>>
s_ACTIVE == <<65, 67, 84, 73, 86, 69>>
s_DEACTIVATED == <<68, 69, 65, 67, 84, 73, 86, 65, 84, 69, 68>>
s_COMPROMISED == <<67, 79, 77, 80, 82, 79, 77, 73, 83, 69, 68>>
s_DESTROYED == <<68, 69, 83, 84, 82, 79, 89, 69, 68>>
s_DESTROYED_COMPROMISED == <<68, 69, 83, 84, 82, 79, 89, 69, 68, 95, 67, 79, 77, 80, 82, 79, 77, 73, 83, 69, 68>>
s_SIGN == <<83, 73, 71, 78>>
s_VERIFY == <<86, 69, 82, 73, 70, 89>>
s_ENCRYPT == <<69, 78, 67, 82, 89, 80, 84>>
s_DECRYPT == <<68, 69, 67, 82, 89, 80, 84>>
s_CREATE == <<67, 82, 69, 65, 84, 69>>
s_GET == <<71, 69, 84>>
s_ACTIVATE == <<65, 67, 84, 73, 86, 65, 84, 69>>
s_DISCOVER_VERSIONS == <<68, 73, 83, 67, 79, 86, 69, 82, 95, 86, 69, 82, 83, 73, 79, 78, 83>>
s_DEVICE == <<68, 69, 86, 73, 67, 69>>
s_ATTESTATION == <<65, 84, 84, 69, 83, 84, 65, 84, 73, 79, 78>>
s_FOO == <<70, 79, 79>>
s_None == <<78, 111, 110, 101>>
s_MyTestKey == <<77, 121, 84, 101, 115, 116, 75, 101, 121>>
t_CryptographicAlgorithm == <<67, 114, 121, 112, 116, 111, 103, 114, 97, 112, 104, 105, 99, 32, 65, 108, 103, 111, 114, 105, 116, 104, 109>>   \* "Cryptographic Algorithm"
t_ObjectType == <<79, 98, 106, 101, 99, 116, 32, 84, 121, 112, 101>>   \* "Object Type"
t_CryptographicUsageMask == <<67, 114, 121, 112, 116, 111, 103, 114, 97, 112, 104, 105, 99, 32, 85, 115, 97, 103, 101, 32, 77, 97, 115, 107>>   \* "Cryptographic Usage Mask"
t_Space == <<32>>   \* " "
t_Unknown == <<67, 117, 115, 116, 111, 109, 32, 65, 116, 116, 114>>   \* "Custom Attr"
t_ObjectTabType == <<79, 98, 106, 101, 99, 116, 9, 84, 121, 112, 101>>   \* "Object\tType"

(* --------------------------- str methods ------------------------------ *)

\* c.isspace() of a character below U+0100
IsSpace(c) == c \in {9, 10, 11, 12, 13, 28, 29, 30, 31, 32, 133, 160}

\* the number of leading whitespace characters of s
LeadingSpaces(s) ==
    CHOOSE n \in 0..Len(s) : /\ \A i \in 1..n : IsSpace(s[i])
                             /\ (n < Len(s) => ~IsSpace(s[n + 1]))

\* the number of trailing whitespace characters of s
TrailingSpaces(s) ==
    CHOOSE n \in 0..Len(s) : /\ \A i \in (Len(s) - n + 1)..Len(s) : IsSpace(s[i])
                             /\ (n < Len(s) => ~IsSpace(s[Len(s) - n]))

\* s.lstrip(), s.rstrip(), s.strip()
LStrip(s) == SubSeq(s, LeadingSpaces(s) + 1, Len(s))

RStrip(s) == SubSeq(s, 1, Len(s) - TrailingSpaces(s))

Strip(s) == RStrip(LStrip(s))

\* c in s
Contains(s, c) == \E i \in 1..Len(s) : s[i] = c

\* s.index(c)
IndexOf(s, c) == CHOOSE i \in 1..Len(s) : s[i] = c /\ \A j \in 1..(i - 1) : s[j] # c

\* the two parts of s.split(c, 1) when c is in s
Before(s, c) == SubSeq(s, 1, IndexOf(s, c) - 1)

After(s, c) == SubSeq(s, IndexOf(s, c) + 1, Len(s))

\* s.startswith(p), s.endswith(p)
StartsWith(s, p) == Len(s) >= Len(p) /\ SubSeq(s, 1, Len(p)) = p

EndsWith(s, p) == Len(s) >= Len(p) /\ SubSeq(s, Len(s) - Len(p) + 1, Len(s)) = p

IsDigit(c) == c >= 48 /\ c <= 57

RECURSIVE TimesTenPlus(_, _)
\* the magnitude 10 * b + d, on big-endian bytes
TimesTenPlus(b, d) ==
    IF b = <<>> THEN NatBytes(d)
    ELSE Append(TimesTenPlus(SubSeq(b, 1, Len(b) - 1), ((b[Len(b)] * 10) + d) \div 256),
                ((b[Len(b)] * 10) + d) % 256)

RECURSIVE DecimalBytes(_)
\* the magnitude of a sequence of decimal digits
DecimalBytes(ds) ==
    IF ds = <<>> THEN <<>>
    ELSE TimesTenPlus(DecimalBytes(SubSeq(ds, 1, Len(ds) - 1)), ds[Len(ds)] - 48)

\* the digits of an int literal: an optional sign, then ASCII digits with single
\* underscores between them
IsIntLiteral(s) ==
    LET body == IF s # <<>> /\ s[1] \in {43, 45} THEN Tail(s) ELSE s
    IN  /\ body # <<>>
        /\ IsDigit(body[1]) /\ IsDigit(body[Len(body)])
        /\ \A i \in 1..Len(body) :
               \/ IsDigit(body[i])
               \/ body[i] = 95 /\ IsDigit(body[i - 1]) /\ IsDigit(body[i + 1])

\* the int of an int literal
LiteralValue(s) ==
    LET mag == DecimalBytes(SelectSeq(s, IsDigit))
    IN  [neg |-> s[1] = 45 /\ mag # <<>>, mag |-> mag]

\* int(s) of a str of characters below U+0100: [ok, v]; ok is FALSE for ValueError
ParseInt(s) == IF IsIntLiteral(Strip(s)) THEN [ok |-> TRUE, v |-> LiteralValue(Strip(s))]
               ELSE [ok |-> FALSE, v |-> I(0)]

(* --------------------------- Python values ---------------------------- *)

PInt(v) == [k |-> "int", n |-> v, s |-> <<>>, kids |-> <<>>]

PStr(s) == [k |-> "str", n |-> I(0), s |-> s, kids |-> <<>>]

PBytes(b) == [k |-> "bytes", n |-> I(0), s |-> b, kids |-> <<>>]

PList(kids) == [k |-> "list", n |-> I(0), s |-> <<>>, kids |-> kids]

PNone == [k |-> "none", n |-> I(0), s |-> <<>>, kids |-> <<>>]

\* {'tag': tag, 'type': type, 'value': value}
Elem(tag, type, value) == [wf |-> TRUE, tag |-> tag, type |-> type, value |-> value]

\* a list item that is no dict with the three keys
Malformed == [wf |-> FALSE, tag |-> PNone, type |-> PNone, value |-> PNone]

IsStr(v, s) == v.k = "str" /\ v.s = s

\* str(name)
PyStr(v) == IF v.k = "str" THEN v.s ELSE s_None

\* int(value) of an int, of a str, or of a value int() rejects; bytes arguments
\* are not among the inputs
PyInt(v) == CASE v.k = "int" -> [ok |-> TRUE, v |-> v.n]
              [] v.k = "str" -> ParseInt(v.s)
              [] v.k \in {"none", "list"} -> [ok |-> FALSE, v |-> I(0)]

\* the truth value of a Python value
Truthy(v) == CASE v.k = "int" -> v.n.mag # <<>>
               [] v.k \in {"str", "bytes"} -> v.s # <<>>
               [] v.k = "list" -> v.kids # <<>>
               [] v.k = "none" -> FALSE

(* ------------------------ registries (kmip enums) --------------------- *)

\* enums.Tags (excerpt): tag name -> 0x42xxxx
TagsTable ==
    (s_ATTRIBUTE :> 4325384) @@
    (s_ATTRIBUTE_NAME :> 4325386) @@
    (s_ATTRIBUTE_VALUE :> 4325387) @@
    (s_BATCH_COUNT :> 4325389) @@
    (s_BATCH_ITEM :> 4325391) @@
    (s_CREDENTIAL_TYPE :> 4325412) @@
    (s_CRYPTOGRAPHIC_ALGORITHM :> 4325416) @@
    (s_CRYPTOGRAPHIC_LENGTH :> 4325418) @@
    (s_OBJECT_GROUP :> 4325462) @@
    (s_OBJECT_TYPE :> 4325463) @@
    (s_OPERATION :> 4325468) @@
    (s_REQUEST_HEADER :> 4325495) @@
    (s_REQUEST_MESSAGE :> 4325496) @@
    (s_REQUEST_PAYLOAD :> 4325497) @@
    (s_STATE :> 4325517) @@
    (s_USERNAME :> 4325529)

\* enums.Types: type name -> type code
TypesTable ==
    (s_STRUCTURE :> 1) @@
    (s_INTEGER :> 2) @@
    (s_LONG_INTEGER :> 3) @@
    (s_BIG_INTEGER :> 4) @@
    (s_ENUMERATION :> 5) @@
    (s_BOOLEAN :> 6) @@
    (s_TEXT_STRING :> 7) @@
    (s_BYTE_STRING :> 8) @@
    (s_DATE_TIME :> 9) @@
    (s_INTERVAL :> 10) @@
    (s_DATE_TIME_EXTENDED :> 11)

\* enums.State
StateTable ==
    (s_PRE_ACTIVE :> 1) @@
    (s_ACTIVE :> 2) @@
    (s_DEACTIVATED :> 3) @@
    (s_COMPROMISED :> 4) @@
    (s_DESTROYED :> 5) @@
    (s_DESTROYED_COMPROMISED :> 6)

\* enums.CryptographicUsageMask (excerpt)
CryptographicUsageMaskTable ==
    (s_SIGN :> 1) @@
    (s_VERIFY :> 2) @@
    (s_ENCRYPT :> 4) @@
    (s_DECRYPT :> 8)

\* enums.CryptographicAlgorithm (excerpt)
CryptographicAlgorithmTable ==
    (s_DES :> 1) @@
    (s_TRIPLE_DES :> 2) @@
    (s_AES :> 3) @@
    (s_RSA :> 4) @@
    (s_DSA :> 5)

\* enums.ObjectType
ObjectTypeTable ==
    (s_CERTIFICATE :> 1) @@
    (s_SYMMETRIC_KEY :> 2) @@
    (s_PUBLIC_KEY :> 3) @@
    (s_PRIVATE_KEY :> 4) @@
    (s_SPLIT_KEY :> 5) @@
    (s_TEMPLATE :> 6) @@
    (s_SECRET_DATA :> 7) @@
    (s_OPAQUE_DATA :> 8)

\* enums.Operation (excerpt)
OperationTable ==
    (s_CREATE :> 1) @@
    (s_GET :> 10) @@
    (s_ACTIVATE :> 18) @@
    (s_DISCOVER_VERSIONS :> 30) @@
    (s_ENCRYPT :> 31) @@
    (s_DECRYPT :> 32) @@
    (s_SIGN :> 33)

\* enums.CredentialType
CredentialTypeTable ==
    (s_USERNAME_AND_PASSWORD :> 1) @@
    (s_DEVICE :> 2) @@
    (s_ATTESTATION :> 3)

\* the table of _get_enum_value for enum_name 'ATTRIBUTE_VALUE'
common_mappings ==
    (s_AES :> 3) @@
    (s_DES :> 1) @@
    (s_TRIPLE_DES :> 2) @@
    (s_RSA :> 4) @@
    (s_DSA :> 5) @@
    (s_SYMMETRIC_KEY :> 2) @@
    (s_PUBLIC_KEY :> 3) @@
    (s_PRIVATE_KEY :> 4) @@
    (s_CERTIFICATE :> 6) @@
    (s_USERNAME_AND_PASSWORD :> 1) @@
    (s_DEVICE_SPECIFIC :> 2)

\* the table of _get_enum_value for enum_name 'CREDENTIAL_TYPE'
credential_mappings ==
    (s_USERNAME_AND_PASSWORD :> 1) @@
    (s_DEVICE_SPECIFIC :> 2)

\* the table of _get_enum_value for enum_name 'OBJECT_TYPE'
object_mappings ==
    (s_CERTIFICATE :> 1) @@
    (s_SYMMETRIC_KEY :> 2) @@
    (s_PUBLIC_KEY :> 3) @@
    (s_PRIVATE_KEY :> 4) @@
    (s_SPLIT_KEY :> 5) @@
    (s_TEMPLATE :> 6) @@
    (s_SECRET_DATA :> 7) @@
    (s_OPAQUE_DATA :> 8)

\* the table of _get_enum_value for enum_name 'OBJECT_GROUP'
group_mappings ==
    (s_DEFAULT :> 0) @@
    (s_NONE :> 0)

\* the table of _get_enum_value_attr
state_mappings ==
    (s_PRE_ACTIVE :> 1) @@
    (s_ACTIVE :> 2) @@
    (s_DEACTIVATED :> 3) @@
    (s_COMPROMISED :> 4) @@
    (s_DESTROYED :> 5) @@
    (s_DESTROYED_COMPROMISED :> 6)

\* the module kmip.core.enums: getattr(enums, key)
enums ==
    (s_Tags :> TagsTable) @@ (s_Types :> TypesTable) @@ (s_State :> StateTable) @@
    (s_CryptographicUsageMask :> CryptographicUsageMaskTable) @@
    (s_CryptographicAlgorithm :> CryptographicAlgorithmTable) @@
    (s_ObjectType :> ObjectTypeTable) @@ (s_Operation :> OperationTable) @@
    (s_CredentialType :> CredentialTypeTable)

NotFound == [ok |-> FALSE, v |-> I(0)]

Found(n) == [ok |-> TRUE, v |-> I(n)]

\* getattr(enums, key), then the member of that class named nm
EnumMember(key, nm) ==
    IF key \in DOMAIN enums /\ nm \in DOMAIN enums[key] THEN Found(enums[key][nm]) ELSE NotFound

RECURSIVE SplitOn(_, _)
\* s.split(c)
SplitOn(s, c) ==
    IF \A i \in 1..Len(s) : s[i] # c THEN <<s>>
    ELSE LET i == CHOOSE i \in 1..Len(s) : s[i] = c /\ \A j \in 1..(i - 1) : s[j] # c
         IN  <<SubSeq(s, 1, i - 1)>> \o SplitOn(SubSeq(s, i + 1, Len(s)), c)

Upper(c) == IF c >= 97 /\ c <= 122 THEN c - 32 ELSE c

Lower(c) == IF c >= 65 /\ c <= 90 THEN c + 32 ELSE c

\* x.capitalize() of ASCII text
Capitalize(x) == [i \in 1..Len(x) |-> IF i = 1 THEN Upper(x[i]) ELSE Lower(x[i])]

RECURSIVE JoinCapitalized(_)
JoinCapitalized(parts) ==
    IF parts = <<>> THEN <<>>
    ELSE (IF Head(parts) = <<>> THEN <<95>> ELSE Capitalize(Head(parts)))
         \o JoinCapitalized(Tail(parts))

\* ''.join(x.capitalize() or '_' for x in enum_name.split('_'))
CamelCase(enum_name) == JoinCapitalized(SplitOn(enum_name, 95))

\* _get_enum_value(enum_name, name): [ok, v]; ok is FALSE when it raises
get_enum_value(enum_name, name) ==
    IF name.k = "int" THEN [ok |-> TRUE, v |-> name.n]
    ELSE IF name.k # "str" \/ enum_name.k # "str" THEN NotFound
    ELSE IF enum_name.s = s_ATTRIBUTE_VALUE /\ name.s \in DOMAIN common_mappings
         THEN Found(common_mappings[name.s])
    ELSE IF enum_name.s = s_CREDENTIAL_TYPE /\ name.s \in DOMAIN credential_mappings
         THEN Found(credential_mappings[name.s])
    ELSE IF enum_name.s = s_OBJECT_TYPE /\ name.s \in DOMAIN object_mappings
         THEN Found(object_mappings[name.s])
    ELSE IF enum_name.s = s_OBJECT_GROUP /\ name.s \in DOMAIN group_mappings
         THEN Found(group_mappings[name.s])
    ELSE EnumMember(CamelCase(enum_name.s), name.s)

\* type_name = self.attribute_name.decode('utf-8').replace(' ', '')
RemoveSpaces(s) == SelectSeq(s, LAMBDA c : c # 32)

\* a variant of enum_classes_to_try that tries the class of the context last
enum_classes_context_last(type_name) ==
    <<s_State, s_CryptographicUsageMask, s_CryptographicAlgorithm, type_name>>

\* enum_classes_to_try
enum_classes_to_try(type_name) ==
    <<type_name, s_State, s_CryptographicUsageMask, s_CryptographicAlgorithm>>

RECURSIVE TryClasses(_, _)
\* the loop over enum_classes_to_try: the first class that has the name
TryClasses(classes, nm) ==
    IF classes = <<>> THEN NotFound
    ELSE LET r == EnumMember(Head(classes), nm)
         IN  IF r.ok THEN r ELSE TryClasses(Tail(classes), nm)

WithRead(r, read) == [ok |-> r.ok, v |-> r.v, read |-> read]

\* a variant that raises when no attribute name is stored
get_enum_value_attr_strict(tag, name, attr) ==
    IF name.k = "int" THEN [ok |-> TRUE, v |-> name.n, read |-> FALSE]
    ELSE IF attr = <<>> THEN WithRead(NotFound, TRUE)
    ELSE IF PyStr(name) \in DOMAIN state_mappings
         THEN WithRead(Found(state_mappings[PyStr(name)]), FALSE)
    ELSE LET d == Utf8Decode(attr)
             type_name == RemoveSpaces(d.s)
         IN  IF ~d.ok \/ type_name = <<>> THEN WithRead(get_enum_value(tag, name), TRUE)
             ELSE WithRead(TryClasses(enum_classes_to_try(type_name), PyStr(name)), TRUE)

\* _get_enum_value_attr(tag, name) on an encoder whose attribute_name is attr:
\* [ok, v, read]; read says that self.attribute_name was consulted
get_enum_value_attr(tag, name, attr) ==
    IF name.k = "int" THEN [ok |-> TRUE, v |-> name.n, read |-> FALSE]
    ELSE IF PyStr(name) \in DOMAIN state_mappings
         THEN WithRead(Found(state_mappings[PyStr(name)]), FALSE)
    ELSE IF attr = <<>> THEN WithRead(get_enum_value(tag, name), TRUE)
    ELSE LET d == Utf8Decode(attr)
             type_name == RemoveSpaces(d.s)
         IN  IF ~d.ok \/ type_name = <<>> THEN WithRead(get_enum_value(tag, name), TRUE)
             ELSE WithRead(TryClasses(enum_classes_to_try(type_name), PyStr(name)), TRUE)

(* --------------------------- value encoders --------------------------- *)

\* what a value encoder returns: (value_bytes, size), the encoder's attribute_name
\* afterwards, and whether attribute_name was consulted; ok is FALSE when it raises
Encoded(bytes, size, attr, read) ==
    [ok |-> TRUE, bytes |-> bytes, size |-> size, attr |-> attr, read |-> read]

Raised(attr, read) == [ok |-> FALSE, bytes |-> <<>>, size |-> 0, attr |-> attr, read |-> read]

\* a variant of the padding rule that pads a text whose length is already a
\* multiple of 8 with 8 more bytes
PaddingAlways(actual_size) == 8 - (actual_size % 8)

\* padding = (8 - actual_size % 8) % 8
Padding(actual_size) == (8 - (actual_size % 8)) % 8

\* a variant of _encode_type_int4 that leaves out the 4 zero bytes
encode_type_int4_unpadded(value, attr) ==
    LET i == PyInt(value)
        data == PackSigned(i.v, 4)
    IN  IF i.ok /\ data.ok THEN Encoded(data.bytes, 4, attr, FALSE)
        ELSE Raised(attr, FALSE)

\* _encode_type_int4(value): struct.pack(">i", int(value)) + 4 zero bytes, size 4
encode_type_int4(value, attr) ==
    LET i == PyInt(value)
        data == PackSigned(i.v, 4)
    IN  IF i.ok /\ data.ok THEN Encoded(data.bytes \o Zeros(4), 4, attr, FALSE)
        ELSE Raised(attr, FALSE)

\* _encode_type_long(value): struct.pack(">q", int(value)), size 8
encode_type_long(value, attr) ==
    LET i == PyInt(value)
        data == PackSigned(i.v, 8)
    IN  IF i.ok /\ data.ok THEN Encoded(data.bytes, 8, attr, FALSE) ELSE Raised(attr, FALSE)

\* a variant of _encode_type_bigint that keeps the low 64 bits of the value
encode_type_bigint_truncating(value, attr) ==
    LET i == PyInt(value)
        w == Len(i.v.mag) + 8
    IN  IF i.ok THEN Encoded(SubSeq(TwosComplement(i.v, w), w - 7, w), 8, attr, FALSE)
        ELSE Raised(attr, FALSE)

\* _encode_type_bigint(value): as _encode_type_long
encode_type_bigint(value, attr) ==
    LET i == PyInt(value)
        data == PackSigned(i.v, 8)
    IN  IF i.ok /\ data.ok THEN Encoded(data.bytes, 8, attr, FALSE) ELSE Raised(attr, FALSE)

\* a variant that resolves every value under ATTRIBUTE_VALUE by the stored attribute
\* name, an integer included, for which no namespace has a name
enum_value_of_lookup(value, tag, attr) ==
    IF IsStr(tag, s_ATTRIBUTE_VALUE)
    THEN IF value.k = "int" THEN WithRead(NotFound, TRUE)
         ELSE get_enum_value_attr(tag, value, attr)
    ELSE IF value.k = "int" THEN [ok |-> TRUE, v |-> value.n, read |-> FALSE]
    ELSE WithRead(get_enum_value(tag, value), FALSE)

\* the branch of _encode_type_enum that yields enum_value: [ok, v, read]
enum_value_of(value, tag, attr) ==
    IF value.k = "int" THEN [ok |-> TRUE, v |-> value.n, read |-> FALSE]
    ELSE IF IsStr(tag, s_ATTRIBUTE_VALUE) THEN get_enum_value_attr(tag, value, attr)
    ELSE WithRead(get_enum_value(tag, value), FALSE)

\* the last two statements of _encode_type_enum, on the enum_value e found:
\* struct.pack(">I", enum_value) + 4 zero bytes, size 4
PackEnum(e, attr) ==
    LET data == PackUnsigned(e.v, 4)
    IN  IF e.ok /\ data.ok THEN Encoded(data.bytes \o Zeros(4), 4, attr, e.read)
        ELSE Raised(attr, e.read)

\* _encode_type_enum(value, tag)
encode_type_enum(value, tag, attr) ==
    PackEnum(enum_value_of(value, tag, attr), attr)

\* _encode_type_bool(value): struct.pack(">Q", 1 if value else 0), size 8
encode_type_bool(value, attr) ==
    Encoded(PackUnsigned(I(IF Truthy(value) THEN 1 ELSE 0), 8).bytes, 8, attr, FALSE)

\* bytes(value) of a bytes object, of an empty list, or of a value bytes() rejects
PyBytes(value) ==
    CASE value.k = "bytes" -> [ok |-> TRUE, bytes |-> value.s]
      [] value.k = "list" /\ value.kids = <<>> -> [ok |-> TRUE, bytes |-> <<>>]
      [] value.k = "list" /\ value.kids # <<>> -> Raise
      [] value.k = "none" -> Raise

\* a variant of _encode_type_text that keeps the bytes of every text as
\* self.attribute_name, whatever the tag
encode_type_text_any_tag(value, tag, attr) ==
    LET text_bytes == IF value.k = "str" THEN [ok |-> TRUE, bytes |-> Utf8(value.s)]
                      ELSE PyBytes(value)
        actual_size == Len(text_bytes.bytes)
    IN  IF ~text_bytes.ok THEN Raised(attr, FALSE)
        ELSE Encoded(text_bytes.bytes \o Zeros(Padding(actual_size)), actual_size,
                     text_bytes.bytes, FALSE)

\* _encode_type_text(value, tag): the UTF-8 bytes zero-padded to a multiple of 8;
\* under the tag "ATTRIBUTE_NAME" they become self.attribute_name
encode_type_text(value, tag, attr) ==
    LET text_bytes == IF value.k = "str" THEN [ok |-> TRUE, bytes |-> Utf8(value.s)]
                      ELSE PyBytes(value)
        actual_size == Len(text_bytes.bytes)
        attr1 == IF IsStr(tag, s_ATTRIBUTE_NAME) THEN text_bytes.bytes ELSE attr
    IN  IF ~text_bytes.ok THEN Raised(attr, FALSE)
        ELSE Encoded(text_bytes.bytes \o Zeros(Padding(actual_size)), actual_size, attr1, FALSE)

HexVal(c) == IF c >= 48 /\ c <= 57 THEN c - 48
             ELSE IF c >= 97 /\ c <= 102 THEN c - 87
             ELSE IF c >= 65 /\ c <= 70 THEN c - 55
             ELSE 0 - 1

\* binascii.unhexlify(s)
unhexlify(s) ==
    IF Len(s) % 2 = 1 \/ \E i \in 1..Len(s) : HexVal(s[i]) < 0 THEN Raise
    ELSE [ok |-> TRUE,
          bytes |-> [i \in 1..(Len(s) \div 2) |-> (16 * HexVal(s[(2 * i) - 1])) + HexVal(s[2 * i])]]

\* _encode_type_bytes(value): the bytes zero-padded to a multiple of 8
encode_type_bytes(value, attr) ==
    LET byte_data == IF value.k = "str" THEN unhexlify(value.s) ELSE PyBytes(value)
        actual_size == Len(byte_data.bytes)
    IN  IF ~byte_data.ok THEN Raised(attr, FALSE)
        ELSE Encoded(byte_data.bytes \o Zeros(Padding(actual_size)), actual_size, attr, FALSE)

\* _encode_type_date(value) of an int: struct.pack(">Q", int(value)), size 8; of a
\* str without whitespace: time.strptime(value) raises, its format asks for
\* whitespace between the fields. The time strings that parse and the current time
\* of the last branch are not among the inputs
encode_type_date(value, attr) ==
    CASE value.k = "int" ->
        LET timestamp == value.n
            data == PackUnsigned(timestamp, 8)
        IN  IF data.ok THEN Encoded(data.bytes, 8, attr, FALSE) ELSE Raised(attr, FALSE)
      [] value.k = "str" /\ \A i \in 1..Len(value.s) : ~IsSpace(value.s[i]) ->
        Raised(attr, FALSE)

\* _encode_type_inter(value): struct.pack(">i", int(value)) + 4 zero bytes, size 4
encode_type_inter(value, attr) ==
    LET i == PyInt(value)
        data == PackSigned(i.v, 4)
    IN  IF i.ok /\ data.ok THEN Encoded(data.bytes \o Zeros(4), 4, attr, FALSE)
        ELSE Raised(attr, FALSE)

\* _encode_type_exdate(value)
encode_type_exdate(value, attr) == encode_type_date(value, attr)

\* _encode_tag(tag): struct.pack(">Bh", 0x42, tag_value & 0xFFFF)
Marker == 66

encode_tag(tag) ==
    LET tag_value == get_enum_value(PStr(s_Tags), tag)
        tag_lower == Low16(tag_value.v)
        low == PackSigned(I(tag_lower), 2)
    IN  IF tag_value.ok /\ low.ok THEN [ok |-> TRUE, bytes |-> <<Marker>> \o low.bytes]
        ELSE Raise

\* _encode_type(type_name): struct.pack(">B", type_value)
encode_type(type_name) ==
    LET type_value == get_enum_value(PStr(s_Types), type_name)
        b == PackUnsigned(type_value.v, 1)
    IN  IF type_value.ok /\ b.ok THEN b ELSE Raise

(* ------------------------------ elements ------------------------------ *)

\* the state of an EncodeTTLV object after __init__
EncodeTTLV == [buffer |-> <<>>, attribute_name |-> <<>>]

\* what encode_ttlv leaves: the encoder's fields, the value returned, whether the
\* call raised, and whether it consulted attribute_name
Outcome(ok, buf, attr, ret, read) ==
    [ok |-> ok, buffer |-> buf, attribute_name |-> attr, ret |-> ret, read |-> read]

RECURSIVE encode_ttlv(_, _, _, _)

\* a variant of the loop that puts each child after the children that follow it
StructPrepend(encoder, rest) ==
    IF encoder.ok /\ rest.ok THEN [ok |-> TRUE, bytes |-> rest.bytes \o encoder.buffer]
    ELSE Raise

\* struct_buffer.extend(encoder.buffer) for one child, before those of the rest
StructExtend(encoder, rest) ==
    IF encoder.ok /\ rest.ok THEN [ok |-> TRUE, bytes |-> encoder.buffer \o rest.bytes]
    ELSE Raise

RECURSIVE StructChildrenStrict(_)
\* a variant of the loop that raises at an element that is no dict with the three
\* keys, as the loop of encode_ttlv_structure does
StructChildrenStrict(value) ==
    IF value = <<>> THEN [ok |-> TRUE, bytes |-> <<>>]
    ELSE IF ~Head(value).wf THEN Raise
    ELSE StructExtend(encode_ttlv(EncodeTTLV, Head(value).tag, Head(value).type,
                                  Head(value).value),
                      StructChildrenStrict(Tail(value)))

RECURSIVE StructChildren(_)
\* the loop of _encode_type_struct: each well-formed element is encoded by an
\* encoder of its own and its buffer appended; the others are skipped
StructChildren(value) ==
    IF value = <<>> THEN [ok |-> TRUE, bytes |-> <<>>]
    ELSE IF ~Head(value).wf THEN StructChildren(Tail(value))
    ELSE StructExtend(encode_ttlv(EncodeTTLV, Head(value).tag, Head(value).type,
                                  Head(value).value),
                      StructChildren(Tail(value)))

\* a variant that reports the length of a structure rounded up to a multiple of
\* 16, as if its content were padded
StructResultPadded(struct_buffer, attr) ==
    IF struct_buffer.ok
    THEN Encoded(struct_buffer.bytes, 16 * ((Len(struct_buffer.bytes) + 15) \div 16), attr,
                 FALSE)
    ELSE Raised(attr, FALSE)

\* return struct_buffer, len(struct_buffer), unless a child raised
StructResult(struct_buffer, attr) ==
    IF struct_buffer.ok
    THEN Encoded(struct_buffer.bytes, Len(struct_buffer.bytes), attr, FALSE)
    ELSE Raised(attr, FALSE)

\* one child and the children after it, on one encoder that keeps its context
SharedExtend(encoder, rest) ==
    IF encoder.ok /\ rest.ok
    THEN [ok |-> TRUE, bytes |-> encoder.buffer \o rest.bytes, attr |-> rest.attr]
    ELSE [ok |-> FALSE, bytes |-> <<>>, attr |-> encoder.attribute_name]

RECURSIVE StructChildrenShared(_, _)
SharedRest(encoder, rest) ==
    SharedExtend(encoder, StructChildrenShared(rest, encoder.attribute_name))

\* the loop of a variant in which the children are encoded with the attribute
\* context of the enclosing encoder and hand it on
StructChildrenShared(value, attr) ==
    IF value = <<>> THEN [ok |-> TRUE, bytes |-> <<>>, attr |-> attr]
    ELSE IF ~Head(value).wf THEN StructChildrenShared(Tail(value), attr)
    ELSE SharedRest(encode_ttlv([buffer |-> <<>>, attribute_name |-> attr], Head(value).tag,
                                Head(value).type, Head(value).value),
                    Tail(value))

SharedResult(r) ==
    IF r.ok THEN Encoded(r.bytes, Len(r.bytes), r.attr, FALSE) ELSE Raised(r.attr, FALSE)

\* a variant that encodes the children of a list on the enclosing encoder's context
encode_type_struct_shared(value, attr) ==
    IF value.k = "list" THEN SharedResult(StructChildrenShared(value.kids, attr))
    ELSE IF value.k = "bytes" THEN Encoded(value.s, Len(value.s), attr, FALSE)
    ELSE Encoded(<<>>, 0, attr, FALSE)

\* _encode_type_struct(value)
encode_type_struct(value, attr) ==
    IF value.k = "list" THEN StructResult(StructChildren(value.kids), attr)
    ELSE IF value.k = "bytes" THEN Encoded(value.s, Len(value.s), attr, FALSE)
    ELSE Encoded(<<>>, 0, attr, FALSE)

\* _encode_value(type_name, value, tag)
encode_value(type_name, value, tag, attr) ==
    IF IsStr(type_name, s_STRUCTURE) THEN encode_type_struct(value, attr)
    ELSE IF IsStr(type_name, s_INTEGER) THEN encode_type_int4(value, attr)
    ELSE IF IsStr(type_name, s_LONG_INTEGER) THEN encode_type_long(value, attr)
    ELSE IF IsStr(type_name, s_BIG_INTEGER) THEN encode_type_bigint(value, attr)
    ELSE IF IsStr(type_name, s_ENUMERATION) THEN encode_type_enum(value, tag, attr)
    ELSE IF IsStr(type_name, s_BOOLEAN) THEN encode_type_bool(value, attr)
    ELSE IF IsStr(type_name, s_TEXT_STRING) THEN encode_type_text(value, tag, attr)
    ELSE IF IsStr(type_name, s_BYTE_STRING) THEN encode_type_bytes(value, attr)
    ELSE IF IsStr(type_name, s_DATE_TIME) THEN encode_type_date(value, attr)
    ELSE IF IsStr(type_name, s_INTERVAL) THEN encode_type_inter(value, attr)
    ELSE IF IsStr(type_name, s_DATE_TIME_EXTENDED) THEN encode_type_exdate(value, attr)
    ELSE Raised(attr, FALSE)

\* a variant that extends the buffer with the type byte before the tag
FrameTypeFirst(tag_bytes, type_byte, size_bytes, value_bytes) ==
    type_byte \o tag_bytes \o size_bytes \o value_bytes

\* the order in which encode_ttlv extends the buffer
Frame(tag_bytes, type_byte, size_bytes, value_bytes) ==
    tag_bytes \o type_byte \o size_bytes \o value_bytes

\* a variant that extends the buffer with the tag and the type as soon as they are
\* encoded, before the value is
ExtendBufferEagerly(self, tag_bytes, type_byte, v) ==
    LET size_bytes == PackUnsigned(I(v.size), 4)
    IN  IF ~tag_bytes.ok \/ ~type_byte.ok
        THEN Outcome(FALSE, self.buffer, self.attribute_name, 0, FALSE)
        ELSE IF ~v.ok \/ ~size_bytes.ok
        THEN Outcome(FALSE, self.buffer \o tag_bytes.bytes \o type_byte.bytes, v.attr, 0, v.read)
        ELSE Outcome(TRUE,
                     self.buffer \o Frame(tag_bytes.bytes, type_byte.bytes,
                                          size_bytes.bytes, v.bytes),
                     v.attr,
                     Len(tag_bytes.bytes) + Len(type_byte.bytes) + Len(size_bytes.bytes)
                         + Len(v.bytes),
                     v.read)

\* the statements of encode_ttlv after the three parts are encoded: pack the
\* size, extend the buffer, return the number of bytes added
ExtendBuffer(self, tag_bytes, type_byte, v) ==
    LET size_bytes == PackUnsigned(I(v.size), 4)
    IN  IF ~tag_bytes.ok \/ ~type_byte.ok
        THEN Outcome(FALSE, self.buffer, self.attribute_name, 0, FALSE)
        ELSE IF ~v.ok \/ ~size_bytes.ok
        THEN Outcome(FALSE, self.buffer, v.attr, 0, v.read)
        ELSE Outcome(TRUE,
                     self.buffer \o Frame(tag_bytes.bytes, type_byte.bytes,
                                          size_bytes.bytes, v.bytes),
                     v.attr,
                     Len(tag_bytes.bytes) + Len(type_byte.bytes) + Len(size_bytes.bytes)
                         + Len(v.bytes),
                     v.read)

\* encode_ttlv(tag, type_name, value) on the encoder self
encode_ttlv(self, tag, type_name, value) ==
    ExtendBuffer(self, encode_tag(tag), encode_type(type_name),
                 encode_value(type_name, value, tag, self.attribute_name))

(* ------------------------------- inputs ------------------------------- *)

PyLong(neg, mag) == [neg |-> neg, mag |-> mag]

\* 2^31 - 1, -2^31, 2^31, -2^31 - 1
Int32Max == PyLong(FALSE, <<127, 255, 255, 255>>)
Int32Min == PyLong(TRUE, <<128, 0, 0, 0>>)
Int32Over == PyLong(FALSE, <<128, 0, 0, 0>>)
Int32Under == PyLong(TRUE, <<128, 0, 0, 1>>)
\* 2^32 - 1, 2^32
UInt32Max == PyLong(FALSE, <<255, 255, 255, 255>>)
UInt32Over == PyLong(FALSE, <<1, 0, 0, 0, 0>>)
\* 2^63 - 1, -2^63, 2^63, -2^63 - 1, 2^64 - 1, 2^64
Int64Max == PyLong(FALSE, <<127, 255, 255, 255, 255, 255, 255, 255>>)
Int64Min == PyLong(TRUE, <<128, 0, 0, 0, 0, 0, 0, 0>>)
Int64Over == PyLong(FALSE, <<128, 0, 0, 0, 0, 0, 0, 0>>)
Int64Under == PyLong(TRUE, <<128, 0, 0, 0, 0, 0, 0, 1>>)
UInt64Max == PyLong(FALSE, <<255, 255, 255, 255, 255, 255, 255, 255>>)
UInt64Over == PyLong(FALSE, <<1, 0, 0, 0, 0, 0, 0, 0, 0>>)

T(s) == PStr(s)

N(n) == PInt(I(n))

\* text values: 'A' * n and the 3-byte character U+20AC * n, one 2-byte and one
\* 4-byte character, a mixed text, and the text of example_1_simple_text
TextValues ==
    {Repeat(65, n) : n \in 0..MaxTextLen} \cup {Repeat(8364, n) : n \in 1..MaxTextLen}
    \cup {<<233>>, <<128512>>, <<233, 8364, 65, 128512>>, s_MyTestKey}

\* byte strings: 0xFF * n, zero bytes, 16 and 17 bytes
ByteValues ==
    {Repeat(255, n) : n \in 0..MaxTextLen} \cup {Repeat(0, 3), Repeat(171, 16), Repeat(171, 17)}

\* hex strings: "0aFF", "", "abc" (odd length), "zz" (no hex digits)
HexValues == {<<48, 97, 70, 70>>, <<>>, <<97, 98, 99>>, <<122, 122>>}

Int32Values == {I(0), I(1), I(0 - 1), I(256), Int32Max, Int32Min, Int32Over, Int32Under}

Int64Values == {I(0), I(0 - 1), Int32Over, Int64Max, Int64Min, Int64Over, Int64Under}

DateValues == {I(0), I(1700000000), UInt64Max, UInt64Over, I(0 - 1)}

\* attribute names: text of a namespace, of no namespace, of spaces only, with a tab
AttributeNames ==
    {t_CryptographicAlgorithm, t_ObjectType, t_CryptographicUsageMask, s_Operation,
     t_Space, t_Unknown, t_ObjectTabType}

\* symbolic enumeration values tried under ATTRIBUTE_VALUE
AttributeValueNames == {s_AES, s_CERTIFICATE, s_ACTIVE, s_SIGN, s_ENCRYPT, s_FOO}

AttributeNameElements ==
    {Elem(T(s_ATTRIBUTE_NAME), T(s_TEXT_STRING), T(a)) : a \in AttributeNames}
    \cup {Elem(T(s_ATTRIBUTE_NAME), T(s_TEXT_STRING), PBytes(<<255>>))}

AttributeValueElements ==
    {Elem(T(s_ATTRIBUTE_VALUE), T(s_ENUMERATION), T(v)) : v \in AttributeValueNames}

BatchCount == Elem(T(s_BATCH_COUNT), T(s_INTEGER), N(1))

Operation1 == Elem(T(s_OPERATION), T(s_ENUMERATION), N(1))

Struct(tag, kids) == Elem(T(tag), T(s_STRUCTURE), PList(kids))

\* the request of example_6_nested_structure
NestedRequest ==
    Struct(s_REQUEST_MESSAGE,
           <<Struct(s_REQUEST_HEADER, <<BatchCount>>), Struct(s_BATCH_ITEM, <<Operation1>>)>>)

\* the structure create_attribute builds: a name and a value under ATTRIBUTE
Attribute(name, value) ==
    Struct(s_ATTRIBUTE, <<Elem(T(s_ATTRIBUTE_NAME), T(s_TEXT_STRING), T(name)),
                          Elem(T(s_ATTRIBUTE_VALUE), T(s_ENUMERATION), T(value))>>)

StructElements ==
    {Struct(s_REQUEST_PAYLOAD, <<>>),
     Struct(s_REQUEST_HEADER, <<BatchCount>>),
     Struct(s_BATCH_ITEM, <<BatchCount, Operation1>>),
     Struct(s_BATCH_ITEM, <<Operation1, BatchCount>>),
     Struct(s_BATCH_ITEM, <<BatchCount, Malformed, Elem(T(s_USERNAME), T(s_TEXT_STRING), T(s_MyTestKey))>>),
     Struct(s_BATCH_ITEM, <<BatchCount, Elem(T(s_NO_SUCH_TAG), T(s_INTEGER), N(1))>>),
     Struct(s_REQUEST_MESSAGE, <<Struct(s_REQUEST_PAYLOAD, <<>>)>>),
     NestedRequest,
     Struct(s_REQUEST_MESSAGE, <<NestedRequest, BatchCount>>),
     Attribute(t_CryptographicAlgorithm, s_AES),
     Attribute(t_ObjectType, s_CERTIFICATE),
     Attribute(t_CryptographicUsageMask, s_SIGN),
     Elem(T(s_REQUEST_PAYLOAD), T(s_STRUCTURE), PBytes(<<1, 2, 3>>)),
     Elem(T(s_REQUEST_PAYLOAD), T(s_STRUCTURE), PBytes(Repeat(7, 16))),
     Elem(T(s_REQUEST_PAYLOAD), T(s_STRUCTURE), PNone),
     Struct(s_REQUEST_MESSAGE, <<Elem(T(s_REQUEST_PAYLOAD), T(s_STRUCTURE), PBytes(<<1, 2, 3>>))>>)}

ScalarElements ==
    {Elem(T(s_USERNAME), T(s_TEXT_STRING), T(x)) : x \in TextValues}
    \cup {Elem(T(s_ATTRIBUTE_NAME), T(s_TEXT_STRING), T(s_MyTestKey)),
          Elem(T(s_USERNAME), T(s_TEXT_STRING), PNone)}
    \cup {Elem(T(s_USERNAME), T(s_BYTE_STRING), PBytes(x)) : x \in ByteValues}
    \cup {Elem(T(s_USERNAME), T(s_BYTE_STRING), T(x)) : x \in HexValues}
    \cup {Elem(T(s_CRYPTOGRAPHIC_LENGTH), T(s_INTEGER), PInt(x)) : x \in Int32Values}
    \cup {Elem(T(s_CRYPTOGRAPHIC_LENGTH), T(s_INTERVAL), PInt(x)) : x \in Int32Values}
    \cup {Elem(T(s_CRYPTOGRAPHIC_LENGTH), T(s_LONG_INTEGER), PInt(x)) : x \in Int64Values}
    \cup {Elem(T(s_CRYPTOGRAPHIC_LENGTH), T(s_BIG_INTEGER), PInt(x)) :
              x \in Int64Values \cup {Int64Under, UInt64Over}}
    \cup {Elem(T(s_CRYPTOGRAPHIC_LENGTH), T(ty), PInt(x)) :
              ty \in {s_DATE_TIME, s_DATE_TIME_EXTENDED}, x \in DateValues}
    \cup {Elem(T(s_ATTRIBUTE_VALUE), T(s_BOOLEAN), x) : x \in {N(1), N(0), N(2), PNone, T(s_FOO)}}
    \cup {Elem(T(s_OPERATION), T(s_ENUMERATION), x) :
              x \in {N(0), N(1), PInt(UInt32Max), PInt(UInt32Over), N(0 - 1),
                     T(s_CREATE), T(s_DISCOVER_VERSIONS), T(s_FOO), PNone}}
    \cup {Elem(T(s_OBJECT_TYPE), T(s_ENUMERATION), T(s_CERTIFICATE)),
          Elem(T(s_CREDENTIAL_TYPE), T(s_ENUMERATION), T(s_DEVICE_SPECIFIC)),
          Elem(T(s_CREDENTIAL_TYPE), T(s_ENUMERATION), T(s_DEVICE)),
          Elem(T(s_OBJECT_GROUP), T(s_ENUMERATION), T(s_DEFAULT)),
          Elem(T(s_STATE), T(s_ENUMERATION), T(s_ACTIVE)),
          Elem(T(s_ATTRIBUTE_VALUE), T(s_ENUMERATION), N(3)),
          Elem(T(s_ATTRIBUTE_VALUE), T(s_ENUMERATION), PInt(UInt32Max)),
          Elem(T(s_ATTRIBUTE_VALUE), T(s_ENUMERATION), PInt(UInt32Over)),
          Elem(T(s_BATCH_COUNT), T(s_ENUMERATION), N(3)),
          Elem(T(s_ATTRIBUTE_VALUE), T(s_INTEGER), N(42))}

\* tags given as numbers, a tag and a type without a registry entry
TagElements ==
    {Elem(N(t), T(s_INTEGER), N(1)) : t \in {4325377, 4358143, 4358144, 4390911, 1, 32768}}
    \cup {Elem(T(s_NO_SUCH_TAG), T(s_INTEGER), N(1)), Elem(T(s_OPERATION), T(s_FLOAT), N(1)),
          Elem(N(4325468), T(s_ENUMERATION), T(s_CREATE))}

\* the elements a sequence of calls is made of before its last call
SeqElements ==
    AttributeNameElements \cup AttributeValueElements
    \cup {BatchCount, Attribute(t_ObjectType, s_CERTIFICATE),
          Elem(T(s_NO_SUCH_TAG), T(s_INTEGER), N(1))}

Elements == SeqElements \cup ScalarElements \cup StructElements \cup TagElements

(* ------------------- one encoder, a sequence of calls ----------------- *)

NoCall == [made |-> FALSE, element |-> Malformed, ok |-> FALSE, ret |-> 0, read |-> FALSE,
           buffer0 |-> <<>>, attribute_name0 |-> <<>>]

NoPasses == [p \in {1, 2} |-> 0]

InitPasses ==
    /\ encs = [p \in {1, 2} |-> EncodeTTLV]
    /\ plist = [p \in {1, 2} |-> <<>>]
    /\ pidx = NoPasses
    /\ pstatus = [p \in {1, 2} |-> "idle"]
    /\ starts = NoPasses

\* encode_from_structured_text has not been called
InitText ==
    /\ text_content = <<>>
    /\ structured_elements = <<>>
    /\ flat_elements = <<>>
    /\ text_encoder = [buffer |-> <<>>, attribute_name |-> <<>>]
    /\ tpc = "idle"

\* no file was read and no converter called
InitFiles ==
    /\ command = "none"
    /\ file_content = <<>>
    /\ loaded = <<>>
    /\ json_data = <<>>
    /\ csv_rows = <<>>
    /\ file_encoder = [buffer |-> <<>>, attribute_name |-> <<>>]
    /\ fpc = "idle"

Init ==
    /\ buffer = <<>>
    /\ attribute_name = <<>>
    /\ calls = 0
    /\ last = NoCall
    /\ InitPasses
    /\ InitText
    /\ InitFiles

\* the elements the next call draws from: any element in the last call of a run
Pool == IF calls + 1 < MaxCalls THEN SeqElements ELSE Elements

\* encoder.encode_ttlv(element['tag'], element['type'], element['value'])
Call(element) ==
    /\ calls < MaxCalls
    /\ \E r \in {encode_ttlv([buffer |-> buffer, attribute_name |-> attribute_name],
                             element.tag, element.type, element.value)} :
           /\ buffer' = r.buffer
           /\ attribute_name' = r.attribute_name
           /\ last' = [made |-> TRUE, element |-> element, ok |-> r.ok, ret |-> r.ret,
                       read |-> r.read, buffer0 |-> buffer, attribute_name0 |-> attribute_name]
    /\ calls' = calls + 1
    /\ UNCHANGED <<encs, plist, pidx, pstatus, starts, textvars, filevars>>

Next == \E element \in Pool : Call(element)

Spec == Init /\ [][Next]_vars

(* --------------- encode_ttlv_structure, several passes ---------------- *)

Passes == {1, 2}

AttrName(name) == Elem(T(s_ATTRIBUTE_NAME), T(s_TEXT_STRING), T(name))

AttrValue(name) == Elem(T(s_ATTRIBUTE_VALUE), T(s_ENUMERATION), T(name))

\* a dict of BATCH_COUNT, INTEGER, 1 without one of the three keys
Lacking(key) ==
    [wf |-> FALSE,
     tag |-> IF key = "tag" THEN PNone ELSE T(s_BATCH_COUNT),
     type |-> IF key = "type" THEN PNone ELSE T(s_INTEGER),
     value |-> IF key = "value" THEN PNone ELSE N(1)]

\* the element lists handed to encode_ttlv_structure
PassLists ==
    {<<>>,
     <<AttrName(t_ObjectType), AttrValue(s_CERTIFICATE)>>,
     <<AttrValue(s_CERTIFICATE)>>,
     <<AttrName(t_CryptographicUsageMask), AttrValue(s_SIGN), BatchCount>>,
     <<AttrValue(s_SIGN)>>,
     <<BatchCount, Malformed, Operation1>>,
     <<BatchCount, Lacking("value")>>,
     <<Lacking("tag")>>,
     <<Operation1, Lacking("type"), BatchCount>>,
     <<Struct(s_BATCH_ITEM, <<BatchCount, Malformed,
                              Elem(T(s_USERNAME), T(s_TEXT_STRING), T(s_MyTestKey))>>),
       Elem(T(s_REQUEST_PAYLOAD), T(s_STRUCTURE), PNone)>>,
     <<Struct(s_REQUEST_MESSAGE, <<Struct(s_BATCH_ITEM, <<Lacking("value"), Operation1>>)>>),
       Elem(T(s_REQUEST_PAYLOAD), T(s_STRUCTURE), N(5))>>,
     <<Elem(T(s_REQUEST_PAYLOAD), T(s_STRUCTURE), T(s_FOO)), BatchCount>>,
     <<NestedRequest>>}

\* a variant in which every pass works on one shared encoder
SharedEncoder(p) == 1

\* the object the local variable `encoder` of pass p names: one of its own
EncoderOf(p) == p

\* encode_ttlv_structure(elements) is called: encoder = EncodeTTLV()
StartPass(p, elements) ==
    /\ pstatus[p] # "running"
    /\ starts[p] < MaxStarts
    /\ encs' = [encs EXCEPT ![EncoderOf(p)] = EncodeTTLV]
    /\ plist' = [plist EXCEPT ![p] = elements]
    /\ pidx' = [pidx EXCEPT ![p] = 0]
    /\ pstatus' = [pstatus EXCEPT ![p] = "running"]
    /\ starts' = [starts EXCEPT ![p] = starts[p] + 1]
    /\ UNCHANGED <<buffer, attribute_name, calls, last, textvars, filevars>>

\* a variant of the loop that passes over an element that is no dict with the three
\* keys, as the loop of _encode_type_struct does
SkipElement(p) ==
    /\ pstatus[p] = "running"
    /\ pidx[p] < Len(plist[p])
    /\ ~plist[p][pidx[p] + 1].wf
    /\ pidx' = [pidx EXCEPT ![p] = pidx[p] + 1]
    /\ UNCHANGED <<buffer, attribute_name, calls, last, encs, plist, pstatus, starts, textvars, filevars>>

\* the loop meets an element that is no dict with the three keys: ValueError
RejectElement(p) ==
    /\ pstatus[p] = "running"
    /\ pidx[p] < Len(plist[p])
    /\ ~plist[p][pidx[p] + 1].wf
    /\ pstatus' = [pstatus EXCEPT ![p] = "raised"]
    /\ UNCHANGED <<buffer, attribute_name, calls, last, encs, plist, pidx, starts, textvars, filevars>>

\* a variant of the loop that encodes each element on an encoder of its own and
\* appends what that encoder holds
EncodeElementApart(p) ==
    /\ pstatus[p] = "running"
    /\ pidx[p] < Len(plist[p])
    /\ plist[p][pidx[p] + 1].wf
    /\ \E r \in {encode_ttlv(EncodeTTLV, plist[p][pidx[p] + 1].tag,
                             plist[p][pidx[p] + 1].type, plist[p][pidx[p] + 1].value)} :
           /\ encs' = [encs EXCEPT ![EncoderOf(p)] =
                          [buffer |-> encs[EncoderOf(p)].buffer \o r.buffer,
                           attribute_name |-> r.attribute_name]]
           /\ IF r.ok THEN pidx' = [pidx EXCEPT ![p] = pidx[p] + 1] /\ pstatus' = pstatus
              ELSE pidx' = pidx /\ pstatus' = [pstatus EXCEPT ![p] = "raised"]
    /\ UNCHANGED <<buffer, attribute_name, calls, last, plist, starts, textvars, filevars>>

\* the loop encodes its next element on the pass's encoder
EncodeElement(p) ==
    /\ pstatus[p] = "running"
    /\ pidx[p] < Len(plist[p])
    /\ plist[p][pidx[p] + 1].wf
    /\ \E r \in {encode_ttlv(encs[EncoderOf(p)], plist[p][pidx[p] + 1].tag,
                             plist[p][pidx[p] + 1].type, plist[p][pidx[p] + 1].value)} :
           /\ encs' = [encs EXCEPT ![EncoderOf(p)] =
                          [buffer |-> r.buffer, attribute_name |-> r.attribute_name]]
           /\ IF r.ok THEN pidx' = [pidx EXCEPT ![p] = pidx[p] + 1] /\ pstatus' = pstatus
              ELSE pidx' = pidx /\ pstatus' = [pstatus EXCEPT ![p] = "raised"]
    /\ UNCHANGED <<buffer, attribute_name, calls, last, plist, starts, textvars, filevars>>

\* the loop is over: return encoder
ReturnEncoder(p) ==
    /\ pstatus[p] = "running"
    /\ pidx[p] = Len(plist[p])
    /\ pstatus' = [pstatus EXCEPT ![p] = "returned"]
    /\ UNCHANGED <<buffer, attribute_name, calls, last, encs, plist, pidx, starts, textvars, filevars>>

NextPasses ==
    \E p \in Passes :
        \/ \E elements \in PassLists : StartPass(p, elements)
        \/ RejectElement(p)
        \/ EncodeElement(p)
        \/ ReturnEncoder(p)

SpecPasses == Init /\ [][NextPasses]_vars

(* ----------------------- reading an encoded frame --------------------- *)

\* the bytes the last call appended to the buffer
LastFrame == SubSeq(buffer, Len(last.buffer0) + 1, Len(buffer))

TagField(f) == SubSeq(f, 1, 3)

TypeField(f) == f[4]

LengthField(f) == BytesNat(SubSeq(f, 5, 8))

ValueField(f) == SubSeq(f, 9, Len(f))

Ceil8(n) == ((n + 7) \div 8) * 8

\* the number of UTF-8 bytes of one character
Utf8Width(c) == IF c < 128 THEN 1 ELSE IF c < 2048 THEN 2 ELSE IF c < 65536 THEN 3 ELSE 4

RECURSIVE SumWidths(_)
SumWidths(s) == IF s = <<>> THEN 0 ELSE Utf8Width(Head(s)) + SumWidths(Tail(s))

IsType(element, ty) == IsStr(element.type, ty)

\* the last call was made with a type of tys and returned
Returned(tys) == last.made /\ last.ok /\ \E ty \in tys : IsType(last.element, ty)

(* ------------------------------ C1 ------------------------------------ *)

\* the number of bytes n of a TEXT_STRING or BYTE_STRING value: the UTF-8 bytes of a
\* text, the bytes of a bytes object, the digit pairs of a hex string
ByteCount(element) ==
    IF element.value.k = "str"
    THEN IF IsType(element, s_TEXT_STRING) THEN SumWidths(element.value.s)
         ELSE Len(element.value.s) \div 2
    ELSE Len(element.value.s)

\* C1: a TEXT_STRING or BYTE_STRING value of n bytes is written with a length field
\* of n and exactly ceil8(n) value bytes, the last ceil8(n) - n of them zero (none
\* when n is a multiple of 8); the frame is 8 + ceil8(n) bytes long.
C1_StringLengthAndPadding ==
    Returned({s_TEXT_STRING, s_BYTE_STRING}) =>
        LET n == ByteCount(last.element)
            v == ValueField(LastFrame)
        IN  /\ LengthField(LastFrame) = n
            /\ Len(v) = Ceil8(n)
            /\ \A i \in (n + 1)..Len(v) : v[i] = 0
            /\ (n % 8 = 0 => Len(v) = n)
            /\ Len(LastFrame) = 8 + Ceil8(n)
            /\ last.ret = 8 + Ceil8(n)
            /\ (last.element.value.k = "bytes" => SubSeq(v, 1, n) = last.element.value.s)

\* 'MyTestKey' under ATTRIBUTE_NAME: length 9, 16 value bytes, a 24-byte frame
C1_Witness ==
    /\ Returned({s_TEXT_STRING})
    /\ last.element = Elem(T(s_ATTRIBUTE_NAME), T(s_TEXT_STRING), T(s_MyTestKey))
    /\ LengthField(LastFrame) = 9
    /\ Len(ValueField(LastFrame)) = 16
    /\ Len(LastFrame) = 24

(* ------------------------------ C2 ------------------------------------ *)

RECURSIVE AddCarry(_, _)
\* the carry out of adding two byte sequences of one length, or -1 when a byte of
\* the sum is not zero
AddCarry(a, b) ==
    IF a = <<>> THEN 0
    ELSE LET n == Len(a)
             c == AddCarry(SubSeq(a, 2, n), SubSeq(b, 2, n))
         IN  IF c < 0 THEN c
             ELSE IF (a[1] + b[1] + c) % 256 # 0 THEN 0 - 1
             ELSE (a[1] + b[1] + c) \div 256

\* b is the big-endian two's complement of v in Len(b) bytes: the magnitude itself
\* for v >= 0, and for v < 0 the bytes whose sum with the magnitude is 2^(8 Len(b))
IsSigned(b, v) ==
    IF v.neg THEN b[1] >= 128 /\ AddCarry(b, PadLeft(v.mag, Len(b))) = 1
    ELSE b[1] < 128 /\ b = PadLeft(v.mag, Len(b))

InSigned32(v) == IF v.neg THEN v \in {I(0 - 1), Int32Min} ELSE v \in {I(0), I(1), I(256), Int32Max}

InSigned64(v) == IF v.neg THEN v \in {I(0 - 1), Int64Min} ELSE v \in {I(0), Int32Over, Int64Max}

InUnsigned32(v) == v \in {I(0), I(1), I(3), UInt32Max}

InUnsigned64(v) == v \in {I(0), I(1700000000), UInt64Max}

\* the fixed-width types with an int value in the range of the type
InRange(element) ==
    /\ element.value.k = "int"
    /\ \/ (IsType(element, s_INTEGER) \/ IsType(element, s_INTERVAL)) /\ InSigned32(element.value.n)
       \/ (IsType(element, s_LONG_INTEGER) \/ IsType(element, s_BIG_INTEGER))
              /\ InSigned64(element.value.n)
       \/ IsType(element, s_ENUMERATION) /\ InUnsigned32(element.value.n)
       \/ (IsType(element, s_DATE_TIME) \/ IsType(element, s_DATE_TIME_EXTENDED))
              /\ InUnsigned64(element.value.n)

FixedTypes ==
    {s_INTEGER, s_INTERVAL, s_ENUMERATION, s_LONG_INTEGER, s_BIG_INTEGER, s_BOOLEAN,
     s_DATE_TIME, s_DATE_TIME_EXTENDED}

\* the value bytes and the length field the table of the fixed-width types gives
FixedLayout(element, f) ==
    LET v == ValueField(f)
        x == element.value
    IN  /\ Len(v) = 8
        /\ IF \E ty \in {s_INTEGER, s_INTERVAL} : IsType(element, ty)
           THEN LengthField(f) = 4 /\ SubSeq(v, 5, 8) = Zeros(4) /\ IsSigned(SubSeq(v, 1, 4), x.n)
           ELSE IF IsType(element, s_ENUMERATION)
           THEN /\ LengthField(f) = 4 /\ SubSeq(v, 5, 8) = Zeros(4)
                /\ (x.k = "int" => SubSeq(v, 1, 4) = PadLeft(x.n.mag, 4))
           ELSE IF \E ty \in {s_LONG_INTEGER, s_BIG_INTEGER} : IsType(element, ty)
           THEN LengthField(f) = 8 /\ IsSigned(v, x.n)
           ELSE IF IsType(element, s_BOOLEAN)
           THEN LengthField(f) = 8 /\ SubSeq(v, 1, 7) = Zeros(7) /\ v[8] \in {0, 1}
                /\ (v[8] = 1 <=> Truthy(x))
           ELSE LengthField(f) = 8 /\ v = PadLeft(x.n.mag, 8)

\* C2: every value in the range of a fixed-width type is encoded, and a fixed-width
\* element is encoded in exactly 8 value bytes: INTEGER and INTERVAL as big-endian
\* signed 32-bit and 4 zero bytes with length 4, ENUMERATION as the big-endian
\* unsigned 32-bit code and 4 zero bytes with length 4, LONG_INTEGER and BIG_INTEGER
\* as big-endian signed 64-bit with length 8, BOOLEAN as 0 or 1 in 64 bits with
\* length 8, DATE_TIME and DATE_TIME_EXTENDED alike as big-endian unsigned 64-bit
\* with length 8.
C2_FixedWidthTypes ==
    /\ (last.made /\ InRange(last.element) /\ last.element.tag.k = "str"
            /\ last.element.tag.s \in DOMAIN TagsTable) => last.ok
    /\ Returned(FixedTypes) =>
           FixedLayout(last.element, LastFrame) /\ Len(LastFrame) = 16 /\ last.ret = 16

\* INTEGER -2^31 is written as 80 00 00 00 and 4 zero bytes with length 4
C2_Witness ==
    /\ Returned({s_INTEGER})
    /\ last.element.value = PInt(Int32Min)
    /\ LengthField(LastFrame) = 4
    /\ ValueField(LastFrame) = <<128, 0, 0, 0, 0, 0, 0, 0>>

(* ------------------------------ C3 ------------------------------------ *)

\* the items of a list that are dicts with the three keys
WellFormed(kids) == SelectSeq(kids, LAMBDA e : e.wf)

RECURSIVE FrameSize(_)
RECURSIVE SumSizes(_)
\* the complete frame size of an element: the 8-byte header and the padded value
FrameSize(element) ==
    IF IsType(element, s_STRUCTURE)
    THEN IF element.value.k = "list" THEN 8 + SumSizes(WellFormed(element.value.kids))
         ELSE IF element.value.k = "bytes" THEN 8 + Len(element.value.s)
         ELSE 8
    ELSE IF IsType(element, s_TEXT_STRING) \/ IsType(element, s_BYTE_STRING)
    THEN 8 + Ceil8(ByteCount(element))
    ELSE 16

SumSizes(kids) == IF kids = <<>> THEN 0 ELSE FrameSize(Head(kids)) + SumSizes(Tail(kids))

IsChildList(element) == IsType(element, s_STRUCTURE) /\ element.value.k = "list"

RECURSIVE StructLengths(_, _)
RECURSIVE ChildLengths(_, _)
\* in the frame f of element, and in the frames of its children at every depth, the
\* length field of a structure is the sum of the frame sizes of its children and
\* the structure has exactly that many value bytes
StructLengths(element, f) ==
    /\ IsChildList(element) =>
           /\ LengthField(f) = SumSizes(WellFormed(element.value.kids))
           /\ Len(ValueField(f)) = LengthField(f)
           /\ ChildLengths(WellFormed(element.value.kids), ValueField(f))
    /\ (IsType(element, s_STRUCTURE) /\ element.value.k = "none") =>
           LengthField(f) = 0 /\ Len(f) = 8

ChildLengths(kids, bytes) ==
    \/ kids = <<>>
    \/ LET n == FrameSize(Head(kids))
       IN  /\ n <= Len(bytes)
           /\ StructLengths(Head(kids), SubSeq(bytes, 1, n))
           /\ ChildLengths(Tail(kids), SubSeq(bytes, n + 1, Len(bytes)))

\* C3: at every nesting depth the length field of a STRUCTURE is the sum of the
\* complete frame sizes (8-byte header and padded value) of its children, the
\* structure adds no padding of its own, and a structure without children has
\* length 0.
C3_StructureLength ==
    Returned({s_STRUCTURE}) => StructLengths(last.element, LastFrame)

\* a structure holding the one child BATCH_COUNT INTEGER 1 has length 16
C3_Witness ==
    /\ Returned({s_STRUCTURE})
    /\ last.element = Struct(s_REQUEST_HEADER, <<BatchCount>>)
    /\ LengthField(LastFrame) = 16

(* ------------------------------ C4 ------------------------------------ *)

\* C4: after any sequence of successful encode_ttlv calls the length of the
\* encoder's buffer is a multiple of 8.
C4_BufferMultipleOf8 == Len(buffer) % 8 = 0

(* ------------------------------ C5 ------------------------------------ *)

\* the 16-bit code of a tag given by number or by name
TagCode(tag) == IF tag.k = "int" THEN Low16(tag.n) ELSE TagsTable[tag.s] % 65536

\* the size of the first frame of bytes, from its own header
HeaderSize(bytes) ==
    8 + (IF TypeField(bytes) = 1 THEN LengthField(bytes) ELSE Ceil8(LengthField(bytes)))

RECURSIVE Layout(_, _)
RECURSIVE ChildLayout(_, _)
\* f is 3 tag bytes, the type byte, the 4-byte big-endian length and the value of
\* element, the value of a structure being the frames of its children in order
Layout(element, f) ==
    /\ Len(f) >= 8
    /\ TagField(f) = <<66, TagCode(element.tag) \div 256, TagCode(element.tag) % 256>>
    /\ TypeField(f) = TypesTable[element.type.s]
    /\ Len(f) = HeaderSize(f)
    /\ Len(f) = FrameSize(element)
    /\ IsChildList(element) => ChildLayout(WellFormed(element.value.kids), ValueField(f))

ChildLayout(kids, bytes) ==
    IF kids = <<>> THEN bytes = <<>>
    ELSE /\ Len(bytes) >= 8
         /\ LET n == HeaderSize(bytes)
                kid == Head(kids)
            IN  /\ n <= Len(bytes)
                /\ SubSeq(bytes, 1, n) = encode_ttlv(EncodeTTLV, kid.tag, kid.type, kid.value).buffer
                /\ Layout(kid, SubSeq(bytes, 1, n))
                /\ ChildLayout(Tail(kids), SubSeq(bytes, n + 1, Len(bytes)))

\* C5: an element is laid out as 3 tag bytes, 1 type byte, the 4-byte big-endian
\* length and the value bytes, in that order; the value bytes of a STRUCTURE are the
\* complete frames of its children, depth-first, in the order they were given.
C5_FrameLayoutAndOrder == (last.made /\ last.ok) => Layout(last.element, LastFrame)

\* [OPERATION, BATCH_COUNT] is written with the OPERATION frame (tag 42 00 5C) first
\* and the BATCH_COUNT frame (tag 42 00 0D) second
C5_Witness ==
    /\ Returned({s_STRUCTURE})
    /\ last.element = Struct(s_BATCH_ITEM, <<Operation1, BatchCount>>)
    /\ SubSeq(LastFrame, 9, 11) = <<66, 0, 92>>
    /\ SubSeq(LastFrame, 25, 27) = <<66, 0, 13>>

(* ------------------------------ C6 ------------------------------------ *)

\* C6: for every 16-bit tag code c the tag is written as exactly 3 bytes: 0x42 and
\* c as a 2-byte big-endian value.
C6_TagThreeBytes ==
    (/\ last.made
     /\ last.element.type = T(s_INTEGER) /\ last.element.value = N(1)
     /\ \/ last.element.tag.k = "int"
        \/ last.element.tag.k = "str" /\ last.element.tag.s \in DOMAIN TagsTable) =>
        LET c == TagCode(last.element.tag)
        IN  last.ok /\ TagField(LastFrame) = <<66, c \div 256, c % 256>>

(* ------------------------------ C7 ------------------------------------ *)

\* s without its whitespace (space and tab)
RemoveWhitespace(s) == SelectSeq(s, LAMBDA c : c \notin {32, 9})

\* C7: in a structure holding an ATTRIBUTE_NAME text and then an ATTRIBUTE_VALUE
\* ENUMERATION with a symbolic name, the name is resolved against the namespace the
\* preceding sibling's text names: the code written is the code of the name there.
C7_SiblingNamespace ==
    \A name \in AttributeNames, value \in AttributeValueNames :
        (/\ last.made
         /\ last.element = Attribute(name, value)
         /\ RemoveWhitespace(name) \in DOMAIN enums
         /\ value \in DOMAIN enums[RemoveWhitespace(name)]) =>
            LET first == 8 + Ceil8(SumWidths(name))
                second == SubSeq(ValueField(LastFrame), first + 1, first + 16)
            IN  /\ last.ok
                /\ SubSeq(ValueField(second), 1, 4)
                       = PadLeft(NatBytes(enums[RemoveWhitespace(name)][value]), 4)

(* ------------------------------ C8 ------------------------------------ *)

\* an ENUMERATION under ATTRIBUTE_VALUE whose value is a symbolic name
IsSymbolicAttributeValue(element) ==
    /\ element.wf
    /\ element.tag = T(s_ATTRIBUTE_VALUE)
    /\ element.type = T(s_ENUMERATION)
    /\ element.value.k = "str"

\* the code of nm in the first namespace of order that has it, or -1
FirstContaining(order, nm) ==
    LET hits == {i \in 1..Len(order) : order[i] \in DOMAIN enums /\ nm \in DOMAIN enums[order[i]]}
    IN  IF hits = {} THEN 0 - 1
        ELSE enums[order[CHOOSE i \in hits : \A j \in hits : i <= j]][nm]

\* the last call failed when code is -1 and wrote code as the enumeration otherwise
ResolvedTo(code) ==
    IF code < 0 THEN ~last.ok
    ELSE last.ok /\ SubSeq(ValueField(LastFrame), 1, 4) = PadLeft(NatBytes(code), 4)

\* C8 as stated: with a non-empty context, the namespace keyed by the context with
\* its whitespace removed is tried first, then key state, usage mask and algorithm;
\* the code is that of the first namespace with the name, and the call fails when
\* none has it.
C8_ContextOrderAsStated ==
    (/\ last.made
     /\ IsSymbolicAttributeValue(last.element)
     /\ last.attribute_name0 # <<>>
     /\ Utf8Decode(last.attribute_name0).ok) =>
        ResolvedTo(FirstContaining(
            <<RemoveWhitespace(Utf8Decode(last.attribute_name0).s), s_State,
              s_CryptographicUsageMask, s_CryptographicAlgorithm>>,
            last.element.value.s))

KeyStateNames ==
    {s_PRE_ACTIVE, s_ACTIVE, s_DEACTIVATED, s_COMPROMISED, s_DESTROYED, s_DESTROYED_COMPROMISED}

\* C8, amended: with a context that is UTF-8 text holding a character other than a
\* space, a key-state name gets its key-state code, and any other name the code of
\* the first of these namespaces that has it: the one keyed by the context with its
\* spaces removed, key state, usage mask, algorithm; the call fails when none has
\* it.  With a context of spaces only, or one that is not UTF-8, a key-state name
\* still gets its code and any other name is resolved as with an empty context, by
\* the built-in ATTRIBUTE_VALUE table, failing when the name is not in it.
C8_ContextOrder ==
    (/\ last.made
     /\ IsSymbolicAttributeValue(last.element)
     /\ last.attribute_name0 # <<>>) =>
        LET d == Utf8Decode(last.attribute_name0)
            key == SelectSeq(d.s, LAMBDA c : c # 32)
            nm == last.element.value.s
        IN  IF nm \in KeyStateNames THEN ResolvedTo(StateTable[nm])
            ELSE IF d.ok /\ key # <<>>
            THEN ResolvedTo(FirstContaining(
                     <<key, s_State, s_CryptographicUsageMask, s_CryptographicAlgorithm>>, nm))
            ELSE ResolvedTo(IF nm \in DOMAIN common_mappings THEN common_mappings[nm] ELSE 0 - 1)

\* under the context 'Operation' the name ENCRYPT gets the code 31 of the context's
\* namespace, not the 4 of the usage-mask namespace
C8_Witness ==
    /\ last.made /\ last.ok
    /\ IsSymbolicAttributeValue(last.element)
    /\ last.attribute_name0 = s_Operation
    /\ last.element.value.s = s_ENCRYPT
    /\ SubSeq(ValueField(LastFrame), 1, 4) = <<0, 0, 0, 31>>

(* ------------------------------ C9 ------------------------------------ *)

\* the last call encoded a TEXT_STRING under the tag ATTRIBUTE_NAME
EncodedAttributeName ==
    last.ok /\ last.element.tag = T(s_ATTRIBUTE_NAME) /\ last.element.type = T(s_TEXT_STRING)

\* C9: the attribute context changes only in a call that encodes a TEXT_STRING under
\* ATTRIBUTE_NAME, where it becomes the bytes of that text; every other call leaves
\* it as it was; and it is read only when an ENUMERATION under ATTRIBUTE_VALUE with
\* a value that is no integer is resolved.
C9_ContextFrame ==
    last.made =>
        /\ IF EncodedAttributeName
           THEN attribute_name = SubSeq(ValueField(LastFrame), 1, LengthField(LastFrame))
           ELSE attribute_name = last.attribute_name0
        /\ last.read =>
               /\ last.element.tag = T(s_ATTRIBUTE_VALUE)
               /\ last.element.type = T(s_ENUMERATION)
               /\ last.element.value.k # "int"

\* a call that is no ATTRIBUTE_NAME text left the context 'Object Type' of the call
\* before it in place, and resolving a symbolic ATTRIBUTE_VALUE read it
C9_Witness ==
    /\ last.made /\ last.read
    /\ IsSymbolicAttributeValue(last.element)
    /\ last.attribute_name0 = t_ObjectType
    /\ attribute_name = t_ObjectType

(* ------------------------------ C10 ----------------------------------- *)

\* the two fields of an encoder that an outcome of encode_ttlv leaves
Fields(r) == [buffer |-> r.buffer, attribute_name |-> r.attribute_name]

RECURSIVE RunPrefix(_, _)
\* the encoder after encode_ttlv_structure has encoded the first k elements of a
\* list, alone, on a new encoder
RunPrefix(elements, k) ==
    IF k = 0 THEN EncodeTTLV
    ELSE Fields(encode_ttlv(RunPrefix(elements, k - 1), elements[k].tag,
                            elements[k].type, elements[k].value))

\* C10: every pass starts on an encoder of its own with an empty attribute context,
\* and what it has produced is what its own element list produces alone, whatever
\* passes ran before it or run interleaved with it.
C10_PassesIndependent ==
    \A p \in Passes :
        /\ (pstatus[p] = "running" /\ pidx[p] = 0) =>
               encs[p].attribute_name = <<>> /\ encs[p].buffer = <<>>
        /\ pstatus[p] \in {"running", "returned"} => encs[p] = RunPrefix(plist[p], pidx[p])

\* pass 1, started a second time, has written CERTIFICATE as 6 (no context) while
\* pass 2 has written it as 1 under its own context 'Object Type'
C10_Witness ==
    /\ pstatus[1] = "returned" /\ pstatus[2] = "returned"
    /\ starts[1] = 2
    /\ plist[1] = <<AttrValue(s_CERTIFICATE)>>
    /\ plist[2] = <<AttrName(t_ObjectType), AttrValue(s_CERTIFICATE)>>
    /\ SubSeq(encs[1].buffer, 9, 12) = <<0, 0, 0, 6>>
    /\ SubSeq(encs[2].buffer, 33, 36) = <<0, 0, 0, 1>>

(* ------------------------------ C11 ----------------------------------- *)

\* the tag is a name of the tag registry
KnownTag(element) == element.tag.k = "str" /\ element.tag.s \in DOMAIN TagsTable

\* C11: an ENUMERATION value given as an integer (one that fits 32 unsigned bits) is
\* written as that integer under every known tag, ATTRIBUTE_VALUE included, whatever
\* the attribute context is; the context is neither read nor changed, and no name
\* lookup can make the call fail.
C11_IntegerEnumeration ==
    (/\ last.made
     /\ IsType(last.element, s_ENUMERATION)
     /\ last.element.value.k = "int"
     /\ InUnsigned32(last.element.value.n)
     /\ KnownTag(last.element)) =>
        /\ last.ok
        /\ LengthField(LastFrame) = 4
        /\ ValueField(LastFrame) = PadLeft(last.element.value.n.mag, 4) \o Zeros(4)
        /\ ~last.read
        /\ attribute_name = last.attribute_name0

\* under ATTRIBUTE_VALUE with the context 'Object Type', the integer 3 is written
\* as 3, although the name of code 3 in no namespace was asked for
C11_Witness ==
    /\ last.made /\ last.ok
    /\ last.element = Elem(T(s_ATTRIBUTE_VALUE), T(s_ENUMERATION), N(3))
    /\ last.attribute_name0 = t_ObjectType
    /\ ValueField(LastFrame) = <<0, 0, 0, 3, 0, 0, 0, 0>>
    /\ ~last.read

(* ------------------------------ C12 ----------------------------------- *)
(* The decoder (decode_ttlv.py) after sections 4.1 to 4.3 of the design:   *)
(* every rule of the value codec reversed, the declared length read, the    *)
(* value skipped to the next 8-byte boundary, elements read until the       *)
(* buffer is exhausted.                                                     *)

\* b without its leading zero bytes
StripZeros(b) ==
    LET n == CHOOSE n \in 0..Len(b) : /\ \A i \in 1..n : b[i] = 0
                                      /\ (n < Len(b) => b[n + 1] # 0)
    IN  SubSeq(b, n + 1, Len(b))

\* the integer of big-endian unsigned bytes, and of big-endian two's complement
UnpackUnsigned(b) == [neg |-> FALSE, mag |-> StripZeros(b)]

UnpackSigned(b) == IF b[1] >= 128 THEN [neg |-> TRUE, mag |-> StripZeros(Invert(Dec(b)))]
                   ELSE UnpackUnsigned(b)

\* tag_name(u16) and type_name(u8), the inverses of resolve_tag and resolve_type
HasTagName(code) == \E name \in DOMAIN TagsTable : TagsTable[name] % 65536 = code

tag_name(code) == CHOOSE name \in DOMAIN TagsTable : TagsTable[name] % 65536 = code

HasTypeName(code) == \E name \in DOMAIN TypesTable : TypesTable[name] = code

type_name(code) == CHOOSE name \in DOMAIN TypesTable : TypesTable[name] = code

NoValue == [ok |-> FALSE, value |-> PNone]

Value(v) == [ok |-> TRUE, value |-> v]

\* the text of valid UTF-8 bytes
DecodedText(d) == IF d.ok THEN Value(PStr(d.s)) ELSE NoValue

\* the decode rule of a scalar type on the declared-length bytes of the value
decode_value(type, b) ==
    IF type \in {s_INTEGER, s_INTERVAL} THEN (IF Len(b) = 4 THEN Value(PInt(UnpackSigned(b))) ELSE NoValue)
    ELSE IF type \in {s_LONG_INTEGER, s_BIG_INTEGER}
    THEN (IF Len(b) = 8 THEN Value(PInt(UnpackSigned(b))) ELSE NoValue)
    ELSE IF type = s_ENUMERATION THEN (IF Len(b) = 4 THEN Value(PInt(UnpackUnsigned(b))) ELSE NoValue)
    ELSE IF type = s_BOOLEAN
    THEN (IF Len(b) = 8 THEN Value(PInt(I(IF StripZeros(b) = <<>> THEN 0 ELSE 1))) ELSE NoValue)
    ELSE IF type \in {s_DATE_TIME, s_DATE_TIME_EXTENDED}
    THEN (IF Len(b) = 8 THEN Value(PInt(UnpackUnsigned(b))) ELSE NoValue)
    ELSE IF type = s_TEXT_STRING THEN DecodedText(Utf8Decode(b))
    ELSE IF type = s_BYTE_STRING THEN Value(PBytes(b))
    ELSE NoValue

NoElements == [ok |-> FALSE, elements |-> <<>>]

\* an element read, before the elements read after it
Decoded(tag, type, v, rest) ==
    IF v.ok /\ rest.ok
    THEN [ok |-> TRUE, elements |-> <<Elem(PStr(tag), PStr(type), v.value)>> \o rest.elements]
    ELSE NoElements

\* the children of a structure as its value
Children(d) == IF d.ok THEN Value(PList(d.elements)) ELSE NoValue

RECURSIVE decode(_)
\* decode(bytes): the sibling elements of a buffer, read until it is exhausted;
\* ok is FALSE for TruncatedInput, UnknownSymbol and UnsupportedType
decode(b) ==
    IF b = <<>> THEN [ok |-> TRUE, elements |-> <<>>]
    ELSE IF Len(b) < 8 \/ b[1] # Marker THEN NoElements
    ELSE IF ~HasTagName(BytesNat(SubSeq(b, 2, 3))) \/ ~HasTypeName(b[4]) THEN NoElements
    ELSE IF b[5] >= 128 THEN NoElements
    ELSE IF 8 + Ceil8(LengthField(b)) > Len(b) THEN NoElements
    ELSE Decoded(tag_name(BytesNat(SubSeq(b, 2, 3))), type_name(b[4]),
                 IF type_name(b[4]) = s_STRUCTURE
                 THEN Children(decode(SubSeq(b, 9, 8 + LengthField(b))))
                 ELSE decode_value(type_name(b[4]), SubSeq(b, 9, 8 + LengthField(b))),
                 decode(SubSeq(b, 9 + Ceil8(LengthField(b)), Len(b))))

RECURSIVE IsElementTree(_)
\* element is an Element of the data model: a registered tag, and a value of the
\* variant of its type, in range; a Structure owns a sequence of such elements
IsElementTree(element) ==
    /\ element.wf
    /\ KnownTag(element)
    /\ element.type.k = "str"
    /\ \/ InRange(element)
       \/ IsType(element, s_BOOLEAN) /\ element.value \in {N(0), N(1)}
       \/ IsType(element, s_TEXT_STRING) /\ element.value.k = "str"
       \/ IsType(element, s_BYTE_STRING) /\ element.value.k = "bytes"
       \/ /\ IsChildList(element)
          /\ \A i \in 1..Len(element.value.kids) : IsElementTree(element.value.kids[i])

FixedNames(tag) ==
    (IF tag = s_CREDENTIAL_TYPE THEN DOMAIN credential_mappings
     ELSE IF tag = s_OBJECT_TYPE THEN DOMAIN object_mappings
     ELSE IF tag = s_OBJECT_GROUP THEN DOMAIN group_mappings
     ELSE {})
    \cup (IF CamelCase(tag) \in DOMAIN enums THEN DOMAIN enums[CamelCase(tag)] ELSE {})

\* every enumeration name some registry holds
AllNames ==
    UNION {DOMAIN enums[key] : key \in DOMAIN enums}
    \cup DOMAIN common_mappings \cup DOMAIN credential_mappings \cup DOMAIN object_mappings
    \cup DOMAIN group_mappings \cup DOMAIN state_mappings

\* the tag, the type or the enumeration name of the element itself has no entry
UnknownSymbol(element) ==
    \/ element.tag.k = "str" /\ element.tag.s \notin DOMAIN TagsTable
    \/ element.type.k = "str" /\ element.type.s \notin DOMAIN TypesTable
    \/ /\ KnownTag(element)
       /\ IsType(element, s_ENUMERATION)
       /\ element.value.k = "str"
       /\ IF IsStr(element.tag, s_ATTRIBUTE_VALUE) THEN element.value.s \notin AllNames
          ELSE element.value.s \notin FixedNames(element.tag.s)

RECURSIVE HasUnknownSymbol(_)
\* the element, or an element nested in it, has a name without an entry
HasUnknownSymbol(element) ==
    \/ UnknownSymbol(element)
    \/ /\ IsType(element, s_STRUCTURE)
       /\ element.value.k = "list"
       /\ \E i \in 1..Len(element.value.kids) :
              element.value.kids[i].wf /\ HasUnknownSymbol(element.value.kids[i])

\* C15: a call of encode_ttlv whose tag name, type name or enumeration name (its own or
\* that of a nested element) has no registry entry fails, and the buffer after the
\* failed call is the buffer before it.
C15_UnknownSymbolAppendsNothing ==
    (last.made /\ HasUnknownSymbol(last.element)) => ~last.ok /\ buffer = last.buffer0

\* after an element was encoded, a BATCH_ITEM whose second child has an unknown tag
\* fails and leaves the bytes of the first call alone
C15_Witness ==
    /\ last.made /\ ~last.ok
    /\ last.element = Struct(s_BATCH_ITEM, <<BatchCount, Elem(T(s_NO_SUCH_TAG), T(s_INTEGER), N(1))>>)
    /\ Len(last.buffer0) = 16
    /\ buffer = last.buffer0

\* an unknown type name and an unknown enumeration name fail in the same way
C15_WitnessNames ==
    /\ last.made /\ ~last.ok /\ buffer = last.buffer0 /\ buffer # <<>>
    /\ last.element \in {Elem(T(s_OPERATION), T(s_FLOAT), N(1)),
                         Elem(T(s_OPERATION), T(s_ENUMERATION), T(s_FOO))}

(* ------------------------------ C16 ----------------------------------- *)

\* the last call encoded an ATTRIBUTE_VALUE ENUMERATION given by name on an encoder
\* that held no attribute name
NameWithoutContext ==
    /\ last.made
    /\ IsStr(last.element.tag, s_ATTRIBUTE_VALUE)
    /\ IsType(last.element, s_ENUMERATION)
    /\ last.element.value.k = "str"
    /\ last.attribute_name0 = <<>>

\* C16 as stated: a symbolic ATTRIBUTE_VALUE ENUMERATION encoded with an empty
\* attribute context fails instead of producing a code.
C16_EmptyContextFails == NameWithoutContext => ~last.ok

\* C16, amended: with an empty attribute context a key-state name is written as its
\* key-state code and a name of the built-in ATTRIBUTE_VALUE table as the code of that
\* table; the call fails exactly for the other names.
C16_EmptyContextFallback ==
    NameWithoutContext =>
        LET name == last.element.value.s
        IN  IF name \in DOMAIN state_mappings
            THEN last.ok /\ ValueField(LastFrame) =
                                PadLeft(NatBytes(state_mappings[name]), 4) \o Zeros(4)
            ELSE IF name \in DOMAIN common_mappings
            THEN last.ok /\ ValueField(LastFrame) =
                                PadLeft(NatBytes(common_mappings[name]), 4) \o Zeros(4)
            ELSE ~last.ok /\ buffer = last.buffer0

\* 'AES' with no attribute name stored is written as 3
C16_Witness ==
    /\ NameWithoutContext /\ last.ok
    /\ last.element.value.s = s_AES
    /\ ValueField(LastFrame) = <<0, 0, 0, 3, 0, 0, 0, 0>>

\* 'SIGN', a name of the usage-mask namespace only, fails with no attribute name stored
C16_WitnessFails ==
    NameWithoutContext /\ ~last.ok /\ last.element.value.s = s_SIGN

(* ------------------------------ C17 ----------------------------------- *)

\* the last call encoded a BIG_INTEGER given as an int
BigIntegerCall ==
    /\ last.made
    /\ IsType(last.element, s_BIG_INTEGER)
    /\ last.element.value.k = "int"
    /\ KnownTag(last.element)

\* the low 64 bits of the two's complement of v
Low64(v) == SubSeq(TwosComplement(v, Len(v.mag) + 8), Len(v.mag) + 1, Len(v.mag) + 8)

\* C17 as stated: a BIG_INTEGER that does not fit in signed 64 bits is truncated to 64
\* bits and encoded as 8 big-endian bytes with length field 8.
C17_BigIntegerTruncated ==
    (BigIntegerCall /\ ~InSigned64(last.element.value.n)) =>
        /\ last.ok
        /\ LengthField(LastFrame) = 8
        /\ ValueField(LastFrame) = Low64(last.element.value.n)

\* C17, amended: a BIG_INTEGER that does not fit in signed 64 bits is not truncated:
\* the call fails and appends nothing; a value of -2^63..2^63-1 is encoded as its 8
\* big-endian two's complement bytes with length field 8.
C17_BigIntegerRange ==
    BigIntegerCall =>
        IF InSigned64(last.element.value.n)
        THEN /\ last.ok
             /\ LengthField(LastFrame) = 8
             /\ Len(ValueField(LastFrame)) = 8
             /\ IsSigned(ValueField(LastFrame), last.element.value.n)
        ELSE ~last.ok /\ buffer = last.buffer0

\* BIG_INTEGER 2^64 is refused, after an earlier call put bytes in the buffer
C17_Witness ==
    /\ BigIntegerCall /\ ~last.ok
    /\ last.element.value.n = UInt64Over
    /\ buffer = last.buffer0 /\ buffer # <<>>

(* ------------------------------ C18 ----------------------------------- *)

RECURSIVE CallEach(_, _)
\* encoder.encode_ttlv(tag, type, value) called by hand for each element in turn:
\* the encoder afterwards, with ok FALSE as soon as a call raises
CallEach(encoder, elements) ==
    IF elements = <<>> THEN [ok |-> TRUE, encoder |-> encoder]
    ELSE LET r == encode_ttlv(encoder, Head(elements).tag, Head(elements).type,
                              Head(elements).value)
         IN  IF r.ok THEN CallEach(Fields(r), Tail(elements))
             ELSE [ok |-> FALSE, encoder |-> Fields(r)]

RECURSIVE TopLevelTags(_)
\* the tag fields of the frames that follow each other in b, each frame being its
\* 8 header bytes and its value padded to a multiple of 8
TopLevelTags(b) ==
    IF Len(b) < 8 THEN <<>>
    ELSE <<TagField(b)>> \o TopLevelTags(SubSeq(b, 9 + Ceil8(LengthField(b)), Len(b)))

\* all elements of the list are dicts with the three keys
AllWellFormed(elements) == \A k \in 1..Len(elements) : elements[k].wf

\* C18: the encoder encode_ttlv_structure(elements) returns holds the buffer of a new
\* encoder on which encode_ttlv was called by hand once per element in list order, and
\* that buffer is one frame per element, in list order.
C18_StructureAsCalls ==
    \A p \in Passes :
        (pstatus[p] = "returned" /\ AllWellFormed(plist[p])) =>
            /\ CallEach(EncodeTTLV, plist[p]).ok
            /\ encs[p].buffer = CallEach(EncodeTTLV, plist[p]).encoder.buffer
            /\ TopLevelTags(encs[p].buffer) =
                   [k \in 1..Len(plist[p]) |-> encode_tag(plist[p][k].tag).bytes]

\* a returned pass over three elements holds three frames, the second resolved
\* under the context the first left
C18_Witness ==
    /\ pstatus[1] = "returned"
    /\ plist[1] = <<AttrName(t_CryptographicUsageMask), AttrValue(s_SIGN), BatchCount>>
    /\ Len(TopLevelTags(encs[1].buffer)) = 3
    /\ encs[1].buffer = CallEach(EncodeTTLV, plist[1]).encoder.buffer

(* ------------------------- structured notation ------------------------ *)

t_stru == <<115, 116, 114, 117>>   \* "stru"
t_BytesOpen == <<98, 39>>   \* "b'"
t_Quote == <<39>>   \* "'"
t_BytearrayOpen == <<98, 121, 116, 101, 97, 114, 114, 97, 121, 40, 98, 39>>   \* "bytearray(b'"
t_BytearrayClose == <<39, 41>>   \* "')"
t_true == <<116, 114, 117, 101>>   \* "true"
t_1 == <<49>>   \* "1"
t_yes == <<121, 101, 115>>   \* "yes"

\* the names of enum_mapping in parse_structured_text, in the order of their codes
\* 1..53
OperationNames ==
    <<
      <<67, 82, 69, 65, 84, 69>>,  \* CREATE
      <<67, 82, 69, 65, 84, 69, 95, 75, 69, 89, 95, 80, 65, 73, 82>>,  \* CREATE_KEY_PAIR
      <<82, 69, 71, 73, 83, 84, 69, 82>>,  \* REGISTER
      <<82, 69, 75, 69, 89>>,  \* REKEY
      <<68, 69, 82, 73, 86, 69, 95, 75, 69, 89>>,  \* DERIVE_KEY
      <<67, 69, 82, 84, 73, 70, 89>>,  \* CERTIFY
      <<82, 69, 67, 69, 82, 84, 73, 70, 89>>,  \* RECERTIFY
      <<76, 79, 67, 65, 84, 69>>,  \* LOCATE
      <<67, 72, 69, 67, 75>>,  \* CHECK
      <<71, 69, 84>>,  \* GET
      <<71, 69, 84, 95, 65, 84, 84, 82, 73, 66, 85, 84, 69, 83>>,  \* GET_ATTRIBUTES
      <<71, 69, 84, 95, 65, 84, 84, 82, 73, 66, 85, 84, 69, 95, 76, 73, 83, 84>>,  \* GET_ATTRIBUTE_LIST
      <<65, 68, 68, 95, 65, 84, 84, 82, 73, 66, 85, 84, 69>>,  \* ADD_ATTRIBUTE
      <<77, 79, 68, 73, 70, 89, 95, 65, 84, 84, 82, 73, 66, 85, 84, 69>>,  \* MODIFY_ATTRIBUTE
      <<68, 69, 76, 69, 84, 69, 95, 65, 84, 84, 82, 73, 66, 85, 84, 69>>,  \* DELETE_ATTRIBUTE
      <<79, 66, 84, 65, 73, 78, 95, 76, 69, 65, 83, 69>>,  \* OBTAIN_LEASE
      <<71, 69, 84, 95, 85, 83, 65, 71, 69, 95, 65, 76, 76, 79, 67, 65, 84, 73, 79, 78>>,  \* GET_USAGE_ALLOCATION
      <<65, 67, 84, 73, 86, 65, 84, 69>>,  \* ACTIVATE
      <<82, 69, 86, 79, 75, 69>>,  \* REVOKE
      <<68, 69, 83, 84, 82, 79, 89>>,  \* DESTROY
      <<65, 82, 67, 72, 73, 86, 69>>,  \* ARCHIVE
      <<82, 69, 67, 79, 86, 69, 82>>,  \* RECOVER
      <<86, 65, 76, 73, 68, 65, 84, 69>>,  \* VALIDATE
      <<81, 85, 69, 82, 89>>,  \* QUERY
      <<67, 65, 78, 67, 69, 76>>,  \* CANCEL
      <<80, 79, 76, 76>>,  \* POLL
      <<78, 79, 84, 73, 70, 89>>,  \* NOTIFY
      <<80, 85, 84>>,  \* PUT
      <<82, 69, 75, 69, 89, 95, 75, 69, 89, 95, 80, 65, 73, 82>>,  \* REKEY_KEY_PAIR
      <<68, 73, 83, 67, 79, 86, 69, 82, 95, 86, 69, 82, 83, 73, 79, 78, 83>>,  \* DISCOVER_VERSIONS
      <<69, 78, 67, 82, 89, 80, 84>>,  \* ENCRYPT
      <<68, 69, 67, 82, 89, 80, 84>>,  \* DECRYPT
      <<83, 73, 71, 78>>,  \* SIGN
      <<83, 73, 71, 78, 65, 84, 85, 82, 69, 95, 86, 69, 82, 73, 70, 89>>,  \* SIGNATURE_VERIFY
      <<77, 65, 67>>,  \* MAC
      <<77, 65, 67, 95, 86, 69, 82, 73, 70, 89>>,  \* MAC_VERIFY
      <<82, 78, 71, 95, 82, 69, 84, 82, 73, 69, 86, 69>>,  \* RNG_RETRIEVE
      <<82, 78, 71, 95, 83, 69, 69, 68>>,  \* RNG_SEED
      <<72, 65, 83, 72>>,  \* HASH
      <<67, 82, 69, 65, 84, 69, 95, 83, 80, 76, 73, 84, 95, 75, 69, 89>>,  \* CREATE_SPLIT_KEY
      <<74, 79, 73, 78, 95, 83, 80, 76, 73, 84, 95, 75, 69, 89>>,  \* JOIN_SPLIT_KEY
      <<73, 77, 80, 79, 82, 84>>,  \* IMPORT
      <<69, 88, 80, 79, 82, 84>>,  \* EXPORT
      <<76, 79, 71>>,  \* LOG
      <<76, 79, 71, 73, 78>>,  \* LOGIN
      <<76, 79, 71, 79, 85, 84>>,  \* LOGOUT
      <<68, 69, 76, 69, 71, 65, 84, 69, 68, 95, 76, 79, 71, 73, 78>>,  \* DELEGATED_LOGIN
      <<65, 68, 74, 85, 83, 84, 95, 65, 84, 84, 82, 73, 66, 85, 84, 69>>,  \* ADJUST_ATTRIBUTE
      <<83, 69, 84, 95, 65, 84, 84, 82, 73, 66, 85, 84, 69>>,  \* SET_ATTRIBUTE
      <<83, 69, 84, 95, 69, 78, 68, 80, 79, 73, 78, 84, 95, 82, 79, 76, 69>>,  \* SET_ENDPOINT_ROLE
      <<80, 75, 67, 83, 95, 49, 49>>,  \* PKCS_11
      <<73, 78, 84, 69, 82, 79, 80>>,  \* INTEROP
      <<82, 69, 80, 82, 79, 86, 73, 83, 73, 79, 78>>   \* REPROVISION
    >>

\* enum_mapping: operation name -> code
enum_mapping ==
    [nm \in {OperationNames[i] : i \in 1..Len(OperationNames)} |->
        CHOOSE i \in 1..Len(OperationNames) : OperationNames[i] = nm]

\* the Python values True and False, as the ints they are
PBool(b) == IF b THEN N(1) ELSE N(0)

\* a variant that compares the text as written, without lowering it
LowerStrKept(s) == s

\* s.lower() of ASCII text
LowerStr(s) == [i \in 1..Len(s) |-> Lower(s[i])]

\* all(c in '0123456789abcdefABCDEF' for c in value)
AllHex(value) == \A i \in 1..Len(value) : HexVal(value[i]) >= 0

\* bytes.fromhex(s) of a text without whitespace: [ok, bytes], ok FALSE for
\* ValueError; hex text with whitespace inside is not among the inputs
fromhex(s) == CASE \A i \in 1..Len(s) : ~IsSpace(s[i]) -> unhexlify(s)

\* a line that yields no element: a blank line, a `continue`, or an exception
Skipped == [ok |-> FALSE, tag |-> PNone, type |-> PNone, value |-> PNone, indent_level |-> 0]

Item(indent_level, tag, tname, value) ==
    [ok |-> TRUE, tag |-> PStr(tag), type |-> PStr(tname), value |-> value,
     indent_level |-> indent_level]

\* the BYTE_STRING branch: b'hex', plain hex digits, or the text itself
ByteStringValue(indent_level, tag, tname, value) ==
    IF StartsWith(value, t_BytesOpen) /\ EndsWith(value, t_Quote)
    THEN IF fromhex(SubSeq(value, 3, Len(value) - 1)).ok
         THEN Item(indent_level, tag, tname,
                   PBytes(fromhex(SubSeq(value, 3, Len(value) - 1)).bytes))
         ELSE Skipped
    ELSE IF Len(value) % 2 = 0 /\ AllHex(value)
    THEN Item(indent_level, tag, tname, PBytes(fromhex(value).bytes))
    ELSE Item(indent_level, tag, tname, PStr(value))

\* the TEXT_STRING branch: bytearray(b'text'), b'text', or the text itself
TextStringValue(value) ==
    IF StartsWith(value, t_BytearrayOpen) /\ EndsWith(value, t_BytearrayClose)
    THEN SubSeq(value, 13, Len(value) - 2)
    ELSE IF StartsWith(value, t_BytesOpen) /\ EndsWith(value, t_Quote)
    THEN SubSeq(value, 3, Len(value) - 1)
    ELSE value

\* a variant of the ENUMERATION branch that numbers the names of enum_mapping from 0
EnumerationValueFromZero(tag, value) ==
    IF ParseInt(value).ok THEN PInt(ParseInt(value).v)
    ELSE IF tag = s_OPERATION /\ value \in DOMAIN enum_mapping
    THEN N(enum_mapping[value] - 1)
    ELSE PStr(value)

\* the ENUMERATION branch: an int, a code of enum_mapping under OPERATION, or the name
EnumerationValue(tag, value) ==
    IF ParseInt(value).ok THEN PInt(ParseInt(value).v)
    ELSE IF tag = s_OPERATION /\ value \in DOMAIN enum_mapping THEN N(enum_mapping[value])
    ELSE PStr(value)

\* "Convert value based on type"
ConvertValue(indent_level, tag, tname, value) ==
    IF tname = s_INTEGER
    THEN Item(indent_level, tag, tname,
              PInt(IF ParseInt(value).ok THEN ParseInt(value).v ELSE I(0)))
    ELSE IF tname = s_BOOLEAN
    THEN Item(indent_level, tag, tname, PBool(LowerStr(value) \in {t_true, t_1, t_yes}))
    ELSE IF tname = s_ENUMERATION
    THEN Item(indent_level, tag, tname, EnumerationValue(tag, value))
    ELSE IF tname = s_STRUCTURE
    THEN Item(indent_level, tag, tname,
              IF StartsWith(value, t_stru) THEN PNone ELSE PStr(value))
    ELSE IF tname = s_BYTE_STRING THEN ByteStringValue(indent_level, tag, tname, value)
    ELSE IF tname = s_TEXT_STRING
    THEN Item(indent_level, tag, tname, PStr(TextStringValue(value)))
    ELSE Item(indent_level, tag, tname, PStr(value))

Min(a, b) == IF a < b THEN a ELSE b

\* the first n characters of s
Truncated(s, n) == SubSeq(s, 1, Min(Len(s), n))

\* a variant that trusts the number in parentheses and keeps that many characters
\* of the value
ParseTypedTrustingLength(indent_level, tag, type_part, value_part) ==
    IF ~Contains(type_part, 40) THEN Skipped
    ELSE ConvertValue(indent_level, tag, Strip(Before(type_part, 40)),
                      IF ParseInt(After(type_part, 40)).ok
                      THEN Truncated(IF Contains(value_part, 58) THEN Strip(After(value_part, 58))
                                     ELSE Strip(value_part),
                                     BytesNat(ParseInt(After(type_part, 40)).v.mag))
                      ELSE IF Contains(value_part, 58) THEN Strip(After(value_part, 58))
                      ELSE Strip(value_part))

\* type_part, value_part = rest.split(')', 1); the type name is what stands before
\* the first '(' of type_part, and type_with_length.split('(')[1] raises IndexError
\* when type_part has none; the value is what follows the first ':' of value_part
ParseTyped(indent_level, tag, type_part, value_part) ==
    IF ~Contains(type_part, 40) THEN Skipped
    ELSE ConvertValue(indent_level, tag, Strip(Before(type_part, 40)),
                      IF Contains(value_part, 58) THEN Strip(After(value_part, 58))
                      ELSE Strip(value_part))

\* tag_part, rest = line_content.split(':', 1)
ParseRest(indent_level, line_content) ==
    IF ~Contains(After(line_content, 58), 40) \/ ~Contains(After(line_content, 58), 41)
    THEN Skipped
    ELSE ParseTyped(indent_level, Strip(Before(line_content, 58)),
                    Before(After(line_content, 58), 41), After(After(line_content, 58), 41))

\* the body of the loop up to the conversion of the value, for one line
ParseLine(line) ==
    IF Strip(line) = <<>> THEN Skipped
    ELSE IF ~Contains(Strip(line), 58) THEN Skipped
    ELSE ParseRest(LeadingSpaces(line), Strip(line))

\* the lines of the text that yield an element, in order
ParsedItems(text) ==
    SelectSeq([i \in 1..Len(SplitOn(Strip(text), 10)) |->
                  ParseLine(SplitOn(Strip(text), 10)[i])],
              LAMBDA item : item.ok)

RECURSIVE Parents(_, _, _)
\* "Adjust stack based on indentation", for the items from the k-th on: the index of
\* the item each one is appended to (0 for the list `elements`), the stack being the
\* indices of the structures held when the k-th item is met; the k-th item is pushed
\* when it is a STRUCTURE
Parents(items, k, stack) ==
    IF k > Len(items) THEN <<>>
    ELSE <<IF Min(Len(stack), items[k].indent_level) = 0 THEN 0
           ELSE stack[Min(Len(stack), items[k].indent_level)]>>
         \o Parents(items, k + 1,
                    IF IsStr(items[k].type, s_STRUCTURE)
                    THEN Append(SubSeq(stack, 1, Min(Len(stack), items[k].indent_level)), k)
                    ELSE SubSeq(stack, 1, Min(Len(stack), items[k].indent_level)))

\* the indices of the items appended to item i, in order
Appended(parents, i) ==
    SelectSeq([j \in 1..Len(parents) |-> j], LAMBDA j : parents[j] = i)

RECURSIVE ChildrenOf(_, _, _)
\* the list item i holds as 'children' when the loop is over (i = 0: `elements`)
ChildrenOf(items, parents, i) ==
    [c \in 1..Len(Appended(parents, i)) |->
        [tag |-> items[Appended(parents, i)[c]].tag,
         type |-> items[Appended(parents, i)[c]].type,
         value |-> items[Appended(parents, i)[c]].value,
         indent_level |-> items[Appended(parents, i)[c]].indent_level,
         children |-> ChildrenOf(items, parents, Appended(parents, i)[c])]]

\* the elements the loop leaves for the items of the text
Nest(items) == ChildrenOf(items, Parents(items, 1, <<>>), 0)

\* parse_structured_text(text_content)
parse_structured_text(text) == Nest(ParsedItems(text))

\* a variant of process_element that gives every structure below the top level an
\* empty value
process_element_shallow(element) ==
    IF IsStr(element.type, s_STRUCTURE)
    THEN Elem(element.tag, T(s_STRUCTURE),
              PList([c \in 1..Len(element.children) |->
                        IF IsStr(element.children[c].type, s_STRUCTURE)
                        THEN Elem(element.children[c].tag, T(s_STRUCTURE), PList(<<>>))
                        ELSE Elem(element.children[c].tag, element.children[c].type,
                                  element.children[c].value)]))
    ELSE Elem(element.tag, element.type, element.value)

RECURSIVE process_element(_)
\* process_element of convert_structured_to_flat
process_element(element) ==
    IF IsStr(element.type, s_STRUCTURE)
    THEN Elem(element.tag, T(s_STRUCTURE),
              PList([c \in 1..Len(element.children) |-> process_element(element.children[c])]))
    ELSE Elem(element.tag, element.type, element.value)

\* convert_structured_to_flat(structured_elements)
convert_structured_to_flat(structured) ==
    [i \in 1..Len(structured) |-> process_element(structured[i])]

RECURSIVE StructureLoop(_, _)
\* the loop of encode_ttlv_structure after a call of encode_ttlv with outcome r
ContinueLoop(r, rest) ==
    IF r.ok THEN StructureLoop(Fields(r), rest) ELSE [ok |-> FALSE, encoder |-> Fields(r)]

\* the loop of encode_ttlv_structure on encoder: [ok, encoder], ok FALSE when an
\* element is no dict with the three keys or a call of encode_ttlv raises
StructureLoop(encoder, elements) ==
    IF elements = <<>> THEN [ok |-> TRUE, encoder |-> encoder]
    ELSE IF ~Head(elements).wf THEN [ok |-> FALSE, encoder |-> encoder]
    ELSE ContinueLoop(encode_ttlv(encoder, Head(elements).tag, Head(elements).type,
                                  Head(elements).value), Tail(elements))

\* encode_ttlv_structure(elements)
encode_ttlv_structure(elements) == StructureLoop(EncodeTTLV, elements)

\* encode_from_structured_text(text_content): the encoder encode_ttlv_structure
\* returns for the elements of the text
encode_from_structured_text(text) ==
    encode_ttlv_structure(convert_structured_to_flat(parse_structured_text(text)))

(* ----------------------- rendering (decode_ttlv) ---------------------- *)

RECURSIVE Digits(_)
\* str(n) of a small natural number
Digits(n) == IF n < 10 THEN <<48 + n>> ELSE Append(Digits(n \div 10), 48 + (n % 10))

RECURSIVE QuotTen(_, _)
\* the quotient by ten of the magnitude b, carry being the remainder so far
QuotTen(b, carry) ==
    IF b = <<>> THEN <<>>
    ELSE <<((carry * 256) + b[1]) \div 10>> \o QuotTen(Tail(b), ((carry * 256) + b[1]) % 10)

RECURSIVE RemTen(_, _)
RemTen(b, carry) == IF b = <<>> THEN carry ELSE RemTen(Tail(b), ((carry * 256) + b[1]) % 10)

RECURSIVE DecimalDigits(_)
DecimalDigits(mag) ==
    IF mag = <<>> THEN <<>>
    ELSE Append(DecimalDigits(StripZeros(QuotTen(mag, 0))), 48 + RemTen(mag, 0))

\* str(v) of an int
IntStr(v) == IF v.mag = <<>> THEN <<48>>
             ELSE (IF v.neg THEN <<45>> ELSE <<>>) \o DecimalDigits(v.mag)

HexDigit(n) == IF n < 10 THEN 48 + n ELSE 87 + n

\* b.hex()
HexStr(b) == [i \in 1..(2 * Len(b)) |->
                 IF i % 2 = 1 THEN HexDigit(b[(i + 1) \div 2] \div 16)
                 ELSE HexDigit(b[i \div 2] % 16)]

\* the quote repr() puts around bytes: " when they hold ' and no ", else '
ReprQuote(b) == IF Contains(b, 39) /\ ~Contains(b, 34) THEN 34 ELSE 39

\* one byte inside repr() of bytes
ReprByte(c, quote) ==
    IF c = 92 THEN <<92, 92>>
    ELSE IF c = quote THEN <<92, c>>
    ELSE IF c = 9 THEN <<92, 116>>
    ELSE IF c = 10 THEN <<92, 110>>
    ELSE IF c = 13 THEN <<92, 114>>
    ELSE IF c < 32 \/ c >= 127 THEN <<92, 120, HexDigit(c \div 16), HexDigit(c % 16)>>
    ELSE <<c>>

RECURSIVE ReprBody(_, _)
ReprBody(b, quote) ==
    IF b = <<>> THEN <<>> ELSE ReprByte(Head(b), quote) \o ReprBody(Tail(b), quote)

\* repr(b) of bytes: b'...'
BytesRepr(b) == <<98, ReprQuote(b)>> \o ReprBody(b, ReprQuote(b)) \o <<ReprQuote(b)>>

\* the two ways a text or byte value is written: as it is (text) and as hex digits
\* (bytes), or in the debug-printed forms the parser unwraps, bytearray(b'text') and
\* b'hex'
Styles == {"plain", "wrapped"}

t_bytearray == <<98, 121, 116, 101, 97, 114, 114, 97, 121, 40>>   \* "bytearray("
t_True == <<84, 114, 117, 101>>   \* "True"
t_False == <<70, 97, 108, 115, 101>>   \* "False"

\* the length a line shows: the length field of the element
ShownLength(element) ==
    IF IsType(element, s_STRUCTURE) THEN FrameSize(element) - 8
    ELSE IF IsType(element, s_TEXT_STRING) \/ IsType(element, s_BYTE_STRING)
    THEN ByteCount(element)
    ELSE IF \E ty \in {s_INTEGER, s_INTERVAL, s_ENUMERATION} : IsType(element, ty) THEN 4
    ELSE 8

\* the value literal of a line at the given depth
Literal(element, depth, style) ==
    IF IsType(element, s_STRUCTURE) THEN t_stru \o Digits(depth + 1)
    ELSE IF IsType(element, s_TEXT_STRING)
    THEN IF style = "plain" THEN element.value.s
         ELSE t_bytearray \o BytesRepr(Utf8(element.value.s)) \o <<41>>
    ELSE IF IsType(element, s_BYTE_STRING)
    THEN IF style = "plain" THEN HexStr(element.value.s)
         ELSE t_BytesOpen \o HexStr(element.value.s) \o t_Quote
    ELSE IF IsType(element, s_BOOLEAN)
    THEN IF Truthy(element.value) THEN t_True ELSE t_False
    ELSE IF element.value.k = "int" THEN IntStr(element.value.n)
    ELSE element.value.s

\* INDENT TAG:TYPE(length):value
RenderLine(element, depth, style) ==
    Repeat(32, depth) \o element.tag.s \o <<58>> \o element.type.s \o <<40>>
    \o Digits(ShownLength(element)) \o <<41, 58>> \o Literal(element, depth, style)

RECURSIVE RenderLines(_, _, _)
\* the lines of the elements and of their children, depth-first, each followed by
\* a line feed
RenderLines(elements, depth, style) ==
    IF elements = <<>> THEN <<>>
    ELSE RenderLine(Head(elements), depth, style) \o <<10>>
         \o (IF IsChildList(Head(elements))
             THEN RenderLines(Head(elements).value.kids, depth + 1, style) ELSE <<>>)
         \o RenderLines(Tail(elements), depth, style)

\* the text printed for a sequence of top-level elements
Render(elements, style) == RenderLines(elements, 0, style)

(* --------------------- inputs: structured texts ----------------------- *)

\* a line of a document: indentation, tag, type, the number in parentheses, value
Line(indent, tag, type, length, value) ==
    [indent |-> indent, tag |-> tag, type |-> type, length |-> length, value |-> value]

LineText(l) ==
    Repeat(32, l.indent) \o l.tag \o <<58>> \o l.type \o <<40>> \o l.length \o <<41, 58>>
    \o l.value

RECURSIVE TextOf(_)
\* the text of a document: its lines joined by line feeds
TextOf(doc) ==
    IF doc = <<>> THEN <<>>
    ELSE IF Len(doc) = 1 THEN LineText(doc[1])
    ELSE LineText(Head(doc)) \o <<10>> \o TextOf(Tail(doc))

\* the numbers shown in parentheses: the lengths of the elements, zeros, or 999
Shown == {0, 1, 2}

ShownNumber(right, shown) ==
    IF shown = 0 THEN Digits(right) ELSE IF shown = 1 THEN <<48>> ELSE <<57, 57, 57>>

\* the request of test_structured_format, one or two spaces per level
RequestDoc(step, shown) ==
    <<Line(0, s_REQUEST_MESSAGE, s_STRUCTURE, ShownNumber(56, shown), t_stru \o <<49>>),
      Line(step, s_REQUEST_HEADER, s_STRUCTURE, ShownNumber(16, shown), t_stru \o <<50>>),
      Line(2 * step, s_BATCH_COUNT, s_INTEGER, ShownNumber(4, shown), <<49>>),
      Line(step, s_BATCH_ITEM, s_STRUCTURE, ShownNumber(24, shown), t_stru \o <<50>>),
      Line(2 * step, s_OPERATION, s_ENUMERATION, ShownNumber(4, shown), s_DISCOVER_VERSIONS),
      Line(2 * step, s_REQUEST_PAYLOAD, s_STRUCTURE, ShownNumber(0, shown), t_stru \o <<51>>)>>

\* an attribute: its name and its value under ATTRIBUTE
AttributeDoc(shown) ==
    <<Line(0, s_ATTRIBUTE, s_STRUCTURE, ShownNumber(40, shown), t_stru \o <<49>>),
      Line(1, s_ATTRIBUTE_NAME, s_TEXT_STRING, ShownNumber(11, shown), t_ObjectType),
      Line(1, s_ATTRIBUTE_VALUE, s_ENUMERATION, ShownNumber(4, shown), s_CERTIFICATE)>>

\* a name and a value that follow each other at the top level
PairDoc(shown) ==
    <<Line(0, s_ATTRIBUTE_NAME, s_TEXT_STRING, ShownNumber(11, shown), t_ObjectType),
      Line(0, s_ATTRIBUTE_VALUE, s_ENUMERATION, ShownNumber(4, shown), s_CERTIFICATE)>>

\* TEXT_STRING literals
TextLiterals ==
    {<<77, 121, 84, 101, 115, 116, 75, 101, 121>>,
     <<>>,
     <<97, 58, 98>>,
     <<120, 41, 121, 40, 122>>,
     <<98, 121, 116, 101, 97, 114, 114, 97, 121, 40, 98, 39, 97, 98, 99, 39, 41>>,
     <<98, 39, 97, 98, 99, 39>>,
     <<98, 121, 116, 101, 97, 114, 114, 97, 121, 40, 98, 39, 41>>,
     <<99, 97, 102, 233>>,
     <<49, 50>>}
\* 'MyTestKey', '', 'a:b', 'x)y(z', "bytearray(b'abc')", "b'abc'", "bytearray(b')", 'caf\xe9', '12'

\* a type and a value literal of a line with a single scalar
ScalarLiterals ==
    {
      <<s_INTEGER, <<52, 50>>>>,   \* 42
      <<s_INTEGER, <<45, 49>>>>,   \* -1
      <<s_INTEGER, <<97, 98, 99>>>>,   \* abc
      <<s_INTEGER, <<50, 49, 52, 55, 52, 56, 51, 54, 52, 56>>>>,   \* 2147483648
      <<s_INTEGER, <<43, 55>>>>,   \* +7
      <<s_INTEGER, <<49, 95, 48>>>>,   \* 1_0
      <<s_INTEGER, <<>>>>,   \* empty
      <<s_INTEGER, <<48, 120, 49, 48>>>>,   \* 0x10
      <<s_BOOLEAN, <<116, 114, 117, 101>>>>,   \* true
      <<s_BOOLEAN, <<84, 82, 85, 69>>>>,   \* TRUE
      <<s_BOOLEAN, <<121, 101, 115>>>>,   \* yes
      <<s_BOOLEAN, <<49>>>>,   \* 1
      <<s_BOOLEAN, <<48>>>>,   \* 0
      <<s_BOOLEAN, <<70, 97, 108, 115, 101>>>>,   \* False
      <<s_LONG_INTEGER, <<53>>>>,   \* 5
      <<s_LONG_INTEGER, <<57, 50, 50, 51, 51, 55, 50, 48, 51, 54, 56, 53, 52, 55, 55, 53, 56, 48, 56>>>>,   \* 9223372036854775808
      <<s_LONG_INTEGER, <<120>>>>,   \* x
      <<s_BIG_INTEGER, <<45, 57, 50, 50, 51, 51, 55, 50, 48, 51, 54, 56, 53, 52, 55, 55, 53, 56, 48, 56>>>>,   \* -9223372036854775808
      <<s_INTERVAL, <<54, 48>>>>,   \* 60
      <<s_DATE_TIME, <<49, 55, 48, 48, 48, 48, 48, 48, 48, 48>>>>,   \* 1700000000
      <<s_BYTE_STRING, <<48, 97, 70, 70>>>>,   \* 0aFF
      <<s_BYTE_STRING, <<98, 39, 48, 97, 102, 102, 39>>>>,   \* b'0aff'
      <<s_BYTE_STRING, <<122, 122>>>>,   \* zz
      <<s_BYTE_STRING, <<98, 39, 122, 122, 39>>>>,   \* b'zz'
      <<s_BYTE_STRING, <<97, 98, 99>>>>,   \* abc
      <<s_BYTE_STRING, <<>>>>,   \* empty
      <<s_BYTE_STRING, <<98, 39>>>>,   \* b'
      <<s_FLOAT, <<49>>>>,   \* 1
      <<s_STRUCTURE, <<120>>>>,   \* x
      <<s_STRUCTURE, <<>>>>    \* empty
    }


ScalarDoc(lit, shown) ==
    <<Line(0, s_CRYPTOGRAPHIC_LENGTH, lit[1], ShownNumber(8, shown), lit[2])>>

\* ENUMERATION lines under OPERATION: every name of enum_mapping, every code, a name
\* and codes outside the table
OperationLiterals ==
    {OperationNames[i] : i \in 1..Len(OperationNames)}
    \cup {Digits(i) : i \in 0..(Len(OperationNames) + 1)}
    \cup {s_FOO, <<52, 50, 57, 52, 57, 54, 55, 50, 57, 53>>,
          <<52, 50, 57, 52, 57, 54, 55, 50, 57, 54>>, <<45, 49>>}
\* 'FOO', 4294967295, 4294967296, -1

OperationDoc(lit) == <<Line(0, s_OPERATION, s_ENUMERATION, <<52>>, lit)>>

\* ENUMERATION lines under other tags: [tag, literal]
EnumerationLiterals ==
    {<<s_OBJECT_TYPE, s_CERTIFICATE>>, <<s_OBJECT_TYPE, <<49>>>>,
     <<s_CREDENTIAL_TYPE, s_DEVICE>>, <<s_CREDENTIAL_TYPE, <<50>>>>,
     <<s_STATE, s_ACTIVE>>, <<s_STATE, <<50>>>>,
     <<s_ATTRIBUTE_VALUE, s_AES>>, <<s_ATTRIBUTE_VALUE, <<51>>>>,
     <<s_OBJECT_TYPE, s_CREATE>>, <<s_NO_SUCH_TAG, <<49>>>>}

EnumerationDoc(lit) == <<Line(0, lit[1], s_ENUMERATION, <<52>>, lit[2])>>

\* indentation patterns: the indentation of each line and whether it is a STRUCTURE
Open(indent) == <<indent, TRUE>>

Leaf(indent) == <<indent, FALSE>>

IndentPatterns ==
    {<<Open(0), Open(1), Leaf(2), Leaf(1)>>,
     <<Open(0), Open(2), Leaf(4)>>,
     <<Open(0), Open(2), Leaf(2)>>,
     <<Open(0), Open(2), Leaf(4), Leaf(2)>>,
     <<Open(0), Leaf(2), Leaf(2)>>,
     <<Open(0), Leaf(1), Leaf(2)>>,
     <<Open(0), Open(3), Leaf(1)>>,
     <<Open(0), Open(1), Open(2), Leaf(0)>>,
     <<Open(0), Open(1), Open(2), Leaf(3), Leaf(1)>>,
     <<Open(2), Leaf(0)>>,
     <<Leaf(0), Leaf(1)>>,
     <<Open(0), Open(4), Open(8), Leaf(4)>>}

\* the document of a pattern: BATCH_ITEM structures and BATCH_COUNT integers that
\* count the lines
PatternDoc(pattern) ==
    [i \in 1..Len(pattern) |->
        IF pattern[i][2]
        THEN Line(pattern[i][1], s_BATCH_ITEM, s_STRUCTURE, <<48>>, t_stru \o Digits(i))
        ELSE Line(pattern[i][1], s_BATCH_COUNT, s_INTEGER, <<52>>, Digits(i))]

Docs ==
    {RequestDoc(step, shown) : step \in {1, 2}, shown \in Shown}
    \cup {AttributeDoc(shown) : shown \in Shown}
    \cup {PairDoc(shown) : shown \in Shown}
    \cup {<<Line(0, s_USERNAME, s_TEXT_STRING, ShownNumber(Len(t), shown), t)>> :
              t \in TextLiterals, shown \in Shown}
    \cup {ScalarDoc(lit, shown) : lit \in ScalarLiterals, shown \in Shown}
    \cup {OperationDoc(lit) : lit \in OperationLiterals}
    \cup {EnumerationDoc(lit) : lit \in EnumerationLiterals}
    \cup {PatternDoc(pattern) : pattern \in IndentPatterns}

\* texts that are no documents of well-formed lines
RawTexts ==
    {
     <<103, 97, 114, 98, 97, 103, 101>>,   \* garbage
     <<65, 58, 66>>,   \* A:B
     <<84, 65, 71, 58, 88, 41, 40, 52, 41, 58, 49>>,   \* TAG:X)(4):1
     <<10, 10, 32, 66, 65, 84, 67, 72, 95, 67, 79, 85, 78, 84, 58, 73, 78, 84, 69, 71, 69, 82, 40, 52, 41, 58, 49, 32, 10, 10>>,   \* \n\n BATCH_COUNT:INTEGER(4):1 \n\n
     <<66, 65, 84, 67, 72, 95, 67, 79, 85, 78, 84, 58, 73, 78, 84, 69, 71, 69, 82, 40, 52, 41, 58, 49, 13, 10, 13, 10, 79, 80, 69, 82, 65, 84, 73, 79, 78, 58, 69, 78, 85, 77, 69, 82, 65, 84, 73, 79, 78, 40, 52, 41, 58, 71, 69, 84, 13, 10>>,   \* BATCH_COUNT:INTEGER(4):1\r\n\r\nOPERATION:ENUMERATION(4):GET\r\n
     <<66, 65, 84, 67, 72, 95, 73, 84, 69, 77, 58, 83, 84, 82, 85, 67, 84, 85, 82, 69, 40, 49, 54, 41, 58, 115, 116, 114, 117, 49, 10, 9, 66, 65, 84, 67, 72, 95, 67, 79, 85, 78, 84, 58, 73, 78, 84, 69, 71, 69, 82, 40, 52, 41, 58, 49>>,   \* BATCH_ITEM:STRUCTURE(16):stru1\n\tBATCH_COUNT:INTEGER(4):1
     <<66, 65, 84, 67, 72, 95, 67, 79, 85, 78, 84, 32, 58, 32, 73, 78, 84, 69, 71, 69, 82, 32, 40, 52, 41, 32, 58, 32, 55>>,   \* BATCH_COUNT : INTEGER (4) : 7
     <<66, 65, 84, 67, 72, 95, 67, 79, 85, 78, 84, 58, 73, 78, 84, 69, 71, 69, 82, 40, 52, 41, 55>>,   \* BATCH_COUNT:INTEGER(4)7
     <<85, 83, 69, 82, 78, 65, 77, 69, 58, 84, 69, 88, 84, 95, 83, 84, 82, 73, 78, 71, 40, 53, 41, 58, 32, 97, 32, 98, 32>>,   \* USERNAME:TEXT_STRING(5): a b 
     <<66, 65, 84, 67, 72, 95, 67, 79, 85, 78, 84, 58, 73, 78, 84, 69, 71, 69, 82, 40, 41, 58, 53>>,   \* BATCH_COUNT:INTEGER():5
     <<66, 65, 84, 67, 72, 95, 67, 79, 85, 78, 84, 58, 73, 78, 84, 69, 71, 69, 82, 40, 120, 41, 58, 53>>,   \* BATCH_COUNT:INTEGER(x):5
     <<66, 65, 84, 67, 72, 95, 73, 84, 69, 77, 58, 83, 84, 82, 85, 67, 84, 85, 82, 69, 40, 50, 52, 41, 58, 115, 116, 114, 117, 49, 10, 32, 85, 83, 69, 82, 78, 65, 77, 69, 58, 66, 89, 84, 69, 95, 83, 84, 82, 73, 78, 71, 40, 50, 41, 58, 98, 39, 122, 122, 39, 10, 32, 66, 65, 84, 67, 72, 95, 67, 79, 85, 78, 84, 58, 73, 78, 84, 69, 71, 69, 82, 40, 52, 41, 58, 49>>,   \* BATCH_ITEM:STRUCTURE(24):stru1\n USERNAME:BYTE_STRING(2):b'zz'\n BATCH_COUNT:INTEGER(4):1
     <<66, 65, 84, 67, 72, 95, 73, 84, 69, 77, 58, 83, 84, 82, 85, 67, 84, 85, 82, 69, 40, 50, 52, 41, 58, 115, 116, 114, 117, 49, 10, 32, 85, 83, 69, 82, 78, 65, 77, 69, 58, 66, 89, 84, 69, 95, 83, 84, 82, 73, 78, 71, 40, 51, 41, 58, 98, 39, 97, 98, 99, 39, 10, 66, 65, 84, 67, 72, 95, 67, 79, 85, 78, 84, 58, 73, 78, 84, 69, 71, 69, 82, 40, 52, 41, 58, 49>>,   \* BATCH_ITEM:STRUCTURE(24):stru1\n USERNAME:BYTE_STRING(3):b'abc'\nBATCH_COUNT:INTEGER(4):1
     <<82, 69, 81, 85, 69, 83, 84, 95, 77, 69, 83, 83, 65, 71, 69, 58, 83, 84, 82, 85, 67, 84, 85, 82, 69, 40, 48, 41, 58, 115, 116, 114, 117, 49, 10, 32, 66, 65, 84, 67, 72, 95, 73, 84, 69, 77, 32, 83, 84, 82, 85, 67, 84, 85, 82, 69, 10, 32, 32, 66, 65, 84, 67, 72, 95, 67, 79, 85, 78, 84, 58, 73, 78, 84, 69, 71, 69, 82, 40, 52, 41, 58, 97, 98, 99, 10, 32, 32, 79, 80, 69, 82, 65, 84, 73, 79, 78, 58, 69, 78, 85, 77, 69, 82, 65, 84, 73, 79, 78, 40, 52, 41, 58, 49, 10, 66, 65, 84, 67, 72, 95, 67, 79, 85, 78, 84, 58, 73, 78, 84, 69, 71, 69, 82, 40, 52, 41, 58, 50>>,   \* REQUEST_MESSAGE:STRUCTURE(0):stru1\n BATCH_ITEM STRUCTURE\n  BATCH_COUNT:INTEGER(4):abc\n  OPERATION:ENUMERATION(4):1\nBATCH_COUNT:INTEGER(4):2
     <<82, 69, 81, 85, 69, 83, 84, 95, 77, 69, 83, 83, 65, 71, 69, 58, 83, 84, 82, 85, 67, 84, 85, 82, 69, 40, 48, 41, 58, 115, 116, 114, 117, 49, 10, 32, 66, 65, 84, 67, 72, 95, 73, 84, 69, 77, 58, 83, 84, 82, 85, 67, 84, 85, 82, 69, 58, 115, 116, 114, 117, 50, 10, 32, 32, 66, 65, 84, 67, 72, 95, 67, 79, 85, 78, 84, 58, 73, 78, 84, 69, 71, 69, 82, 40, 52, 41, 58, 49>>,   \* REQUEST_MESSAGE:STRUCTURE(0):stru1\n BATCH_ITEM:STRUCTURE:stru2\n  BATCH_COUNT:INTEGER(4):1
     <<82, 69, 81, 85, 69, 83, 84, 95, 77, 69, 83, 83, 65, 71, 69, 58, 83, 84, 82, 85, 67, 84, 85, 82, 69, 10, 32, 82, 69, 81, 85, 69, 83, 84, 95, 72, 69, 65, 68, 69, 82, 58, 83, 84, 82, 85, 67, 84, 85, 82, 69, 40, 48, 41, 58, 115, 116, 114, 117, 50, 10, 32, 32, 66, 65, 84, 67, 72, 95, 67, 79, 85, 78, 84, 58, 73, 78, 84, 69, 71, 69, 82, 40, 52, 41, 58, 49, 10, 32, 66, 65, 84, 67, 72, 95, 73, 84, 69, 77, 58, 83, 84, 82, 85, 67, 84, 85, 82, 69, 40, 48, 41, 58, 115, 116, 114, 117, 50>>,   \* REQUEST_MESSAGE:STRUCTURE\n REQUEST_HEADER:STRUCTURE(0):stru2\n  BATCH_COUNT:INTEGER(4):1\n BATCH_ITEM:STRUCTURE(0):stru2
     <<66, 65, 84, 67, 72, 95, 67, 79, 85, 78, 84, 58, 73, 78, 84, 69, 71, 69, 82, 40, 52, 41, 58, 120, 49, 10, 79, 80, 69, 82, 65, 84, 73, 79, 78, 58, 69, 78, 85, 77, 69, 82, 65, 84, 73, 79, 78, 40, 52, 41, 58, 49>>,   \* BATCH_COUNT:INTEGER(4):x1\nOPERATION:ENUMERATION(4):1
     <<>>,   \* empty
     <<79, 80, 69, 82, 65, 84, 73, 79, 78, 58, 69, 78, 85, 77, 69, 82, 65, 84, 73, 79, 78, 40, 52, 41, 58, 32, 67, 82, 69, 65, 84, 69>>,   \* OPERATION:ENUMERATION(4): CREATE
     <<79, 80, 69, 82, 65, 84, 73, 79, 78, 58, 69, 78, 85, 77, 69, 82, 65, 84, 73, 79, 78, 40, 52, 41, 58, 99, 114, 101, 97, 116, 101>>,   \* OPERATION:ENUMERATION(4):create
     <<66, 65, 84, 67, 72, 95, 67, 79, 85, 78, 84, 58, 73, 78, 84, 69, 71, 69, 82, 40, 52, 41, 58, 49, 10, 110, 111, 116, 101, 10, 79, 80, 69, 82, 65, 84, 73, 79, 78, 58, 69, 78, 85, 77, 69, 82, 65, 84, 73, 79, 78, 40, 52, 41, 58, 49>>    \* BATCH_COUNT:INTEGER(4):1\nnote\nOPERATION:ENUMERATION(4):1
    }


\* element trees to render: the requests and attributes of the examples, scalars of
\* every type but the dates, and texts with a line feed, a leading space, a quote
\* and a character outside ASCII
RenderedTrees ==
    {NestedRequest, BatchCount, Operation1,
     Attribute(t_ObjectType, s_CERTIFICATE),
     Struct(s_REQUEST_PAYLOAD, <<>>),
     Struct(s_BATCH_ITEM, <<BatchCount, Operation1>>),
     Struct(s_REQUEST_MESSAGE, <<NestedRequest, BatchCount>>),
     Elem(T(s_USERNAME), T(s_TEXT_STRING), T(s_MyTestKey)),
     Elem(T(s_USERNAME), T(s_TEXT_STRING), T(<<>>)),
     Elem(T(s_USERNAME), T(s_TEXT_STRING), T(<<97, 10, 98>>)),
     Elem(T(s_USERNAME), T(s_TEXT_STRING), T(<<32, 120>>)),
     Elem(T(s_USERNAME), T(s_TEXT_STRING), T(<<105, 116, 39, 115>>)),
     Elem(T(s_USERNAME), T(s_TEXT_STRING), T(<<99, 97, 102, 233>>)),
     Elem(T(s_USERNAME), T(s_BYTE_STRING), PBytes(<<10, 255>>)),
     Elem(T(s_USERNAME), T(s_BYTE_STRING), PBytes(<<>>)),
     Elem(T(s_CRYPTOGRAPHIC_LENGTH), T(s_INTEGER), N(0 - 1)),
     Elem(T(s_CRYPTOGRAPHIC_LENGTH), T(s_INTEGER), PInt(Int32Max)),
     Elem(T(s_CRYPTOGRAPHIC_LENGTH), T(s_LONG_INTEGER), PInt(Int64Max)),
     Elem(T(s_CRYPTOGRAPHIC_LENGTH), T(s_BIG_INTEGER), PInt(Int64Min)),
     Elem(T(s_CRYPTOGRAPHIC_LENGTH), T(s_INTERVAL), N(256)),
     Elem(T(s_ATTRIBUTE_VALUE), T(s_BOOLEAN), N(1)),
     Elem(T(s_ATTRIBUTE_VALUE), T(s_BOOLEAN), N(0)),
     Elem(T(s_OPERATION), T(s_ENUMERATION), T(s_DISCOVER_VERSIONS)),
     Elem(T(s_OBJECT_TYPE), T(s_ENUMERATION), T(s_CERTIFICATE))}

RenderedTexts == {Render(<<t>>, style) : t \in RenderedTrees, style \in Styles}

\* the texts handed to encode_from_structured_text
Texts == {TextOf(doc) : doc \in Docs} \cup RawTexts \cup RenderedTexts

(* ----------------- encode_from_structured_text, in steps -------------- *)

\* encode_from_structured_text(text_content) is called
CallEncodeFromStructuredText(text) ==
    /\ tpc \in {"idle", "returned", "raised"}
    /\ text_content' = text
    /\ structured_elements' = <<>>
    /\ flat_elements' = <<>>
    /\ text_encoder' = EncodeTTLV
    /\ tpc' = "parse"
    /\ UNCHANGED <<encvars, filevars>>

\* structured_elements = parse_structured_text(text_content)
ParseStructuredText ==
    /\ tpc = "parse"
    /\ structured_elements' = parse_structured_text(text_content)
    /\ tpc' = "convert"
    /\ UNCHANGED <<text_content, flat_elements, text_encoder, encvars, filevars>>

\* flat_elements = convert_structured_to_flat(structured_elements)
ConvertStructuredToFlat ==
    /\ tpc = "convert"
    /\ flat_elements' = convert_structured_to_flat(structured_elements)
    /\ tpc' = "encode"
    /\ UNCHANGED <<text_content, structured_elements, text_encoder, encvars, filevars>>

\* return encode_ttlv_structure(flat_elements), or the exception of a call in it
EncodeFlatElements ==
    /\ tpc = "encode"
    /\ \E r \in {encode_ttlv_structure(flat_elements)} :
           /\ text_encoder' = r.encoder
           /\ tpc' = IF r.ok THEN "returned" ELSE "raised"
    /\ UNCHANGED <<text_content, structured_elements, flat_elements, encvars, filevars>>

NextText ==
    \/ \E text \in Texts : CallEncodeFromStructuredText(text)
    \/ ParseStructuredText
    \/ ConvertStructuredToFlat
    \/ EncodeFlatElements

SpecText == Init /\ [][NextText]_vars

(* ------------------------------ C13 ----------------------------------- *)

\* encode_from_structured_text has returned or raised
Ended == tpc \in {"returned", "raised"}

\* C13: an element tree that is rendered as structured notation, parsed and encoded
\* again gives the bytes of the tree itself, whichever way the text and byte values
\* are written.
C13_RenderParseEncode ==
    \A t \in RenderedTrees, style \in Styles :
        (Ended /\ text_content = Render(<<t>>, style)) =>
            /\ tpc = "returned"
            /\ text_encoder.buffer = encode_ttlv_structure(<<t>>).encoder.buffer

\* the text 'a', a line feed, 'b' comes back as 'a' from its plain rendering (the
\* second line has no ':' and is skipped) and as the 4 characters a \ n b from its
\* bytearray(b'a\nb') rendering, which is never unescaped
C13_LineFeedLost ==
    /\ tpc = "returned"
    /\ \E style \in Styles :
           text_content = Render(<<Elem(T(s_USERNAME), T(s_TEXT_STRING), T(<<97, 10, 98>>))>>, style)
    /\ flat_elements[1].value \in {T(<<97>>), T(<<97, 92, 110, 98>>)}
    /\ LengthField(text_encoder.buffer) \in {1, 4}

(* ------------------------------ C14 ----------------------------------- *)

\* two documents with the same lines but for the numbers in parentheses
SameButLength(d1, d2) ==
    /\ Len(d1) = Len(d2)
    /\ \A i \in 1..Len(d1) :
           /\ d1[i].indent = d2[i].indent /\ d1[i].tag = d2[i].tag
           /\ d1[i].type = d2[i].type /\ d1[i].value = d2[i].value

\* the text gives the parsed elements and the outcome the call in progress has
SameOutcome(text) ==
    /\ parse_structured_text(text) = structured_elements
    /\ encode_from_structured_text(text).ok = (tpc = "returned")
    /\ tpc = "returned" => encode_from_structured_text(text).encoder.buffer = text_encoder.buffer

\* C14: a structured text and every text that differs from it only in the numbers
\* written in the '(length)' annotations are parsed to the same elements and encode
\* to the same bytes, or fail alike.
C14_LengthAdvisory ==
    Ended =>
        \A d1 \in Docs :
            TextOf(d1) = text_content =>
                \A d2 \in Docs : SameButLength(d1, d2) => SameOutcome(TextOf(d2))

\* 'MyTestKey' annotated with (999) is encoded with the length field 9, as it is
\* when annotated (9) or (0)
C14_Witness ==
    /\ tpc = "returned"
    /\ text_content = TextOf(<<Line(0, s_USERNAME, s_TEXT_STRING, <<57, 57, 57>>, s_MyTestKey)>>)
    /\ LengthField(text_encoder.buffer) = 9
    /\ Len(text_encoder.buffer) = 24
    /\ SameOutcome(TextOf(<<Line(0, s_USERNAME, s_TEXT_STRING, <<48>>, s_MyTestKey)>>))

(* ------------------------------ C19 ----------------------------------- *)

RECURSIVE Flatten(_, _, _)
\* the elements of a list and their descendants in document order, each with its
\* indentation, whether it is a STRUCTURE, and the number its parent has in that
\* order (0 at the top level); base elements come before the list
Flatten(nodes, parent, base) ==
    IF nodes = <<>> THEN <<>>
    ELSE LET first == <<[indent_level |-> Head(nodes).indent_level,
                         structure |-> IsStr(Head(nodes).type, s_STRUCTURE),
                         parent |-> parent]>>
                      \o Flatten(Head(nodes).children, base + 1, base + 1)
         IN  first \o Flatten(Tail(nodes), parent, base + Len(first))

\* the nearest line before line k with strictly smaller indentation, 0 if none
NearestSmaller(f, k) ==
    IF \E j \in 1..(k - 1) : f[j].indent_level < f[k].indent_level
    THEN CHOOSE j \in 1..(k - 1) :
             /\ f[j].indent_level < f[k].indent_level
             /\ \A i \in (j + 1)..(k - 1) : f[i].indent_level >= f[k].indent_level
    ELSE 0

\* parse_structured_text has returned
Parsed == tpc \in {"convert", "encode", "returned", "raised"}

\* every line that has a line of smaller indentation before it has a STRUCTURE as
\* the nearest such line
NestsUnderStructures(f) ==
    \A k \in 1..Len(f) : NearestSmaller(f, k) # 0 => f[NearestSmaller(f, k)].structure

\* C19: in the elements parse_structured_text returns, the parent of each line is the
\* nearest preceding line with strictly smaller indentation, and a line without such
\* a predecessor is a top-level element, for every indentation pattern in which the
\* lines nest under structures.
C19_NearestSmallerIndentation ==
    (Parsed /\ NestsUnderStructures(Flatten(structured_elements, 0, 0))) =>
        \A k \in 1..Len(Flatten(structured_elements, 0, 0)) :
            Flatten(structured_elements, 0, 0)[k].parent =
                NearestSmaller(Flatten(structured_elements, 0, 0), k)

\* two siblings at indentation 2 under a structure at 0: the second, an INTEGER, is
\* made a child of the first, a STRUCTURE, instead of its sibling
C19_SiblingBecomesChild ==
    /\ Parsed
    /\ text_content = TextOf(PatternDoc(<<Open(0), Open(2), Leaf(2)>>))
    /\ Len(structured_elements) = 1
    /\ Len(structured_elements[1].children) = 1
    /\ Len(structured_elements[1].children[1].children) = 1
    /\ structured_elements[1].children[1].children[1].indent_level = 2

\* with one space per level the parents are the nearest lines of smaller indentation
C19_OneSpacePerLevel ==
    /\ Parsed
    /\ text_content = TextOf(RequestDoc(1, 0))
    /\ Len(structured_elements[1].children) = 2
    /\ \A k \in 1..6 : Flatten(structured_elements, 0, 0)[k].parent =
                           NearestSmaller(Flatten(structured_elements, 0, 0), k)

(* ------------------------------ C20 ----------------------------------- *)

\* the TTLV item of an ENUMERATION: tag, type 5, length 4, the code in 4 bytes and 4
\* bytes of padding
EnumerationItem(tag, code) ==
    PadLeft(NatBytes(TagsTable[tag]), 3) \o <<TypesTable[s_ENUMERATION]>>
        \o PadLeft(NatBytes(4), 4) \o PadLeft(NatBytes(code), 4) \o Zeros(4)

\* the call on the one-line text 'TAG:ENUMERATION(4):literal' has ended, returning an
\* encoder whose buffer is the item of that code
EncodesAs(tag, literal, code) ==
    (Ended /\ text_content = TextOf(EnumerationDoc(<<tag, literal>>))) =>
        (tpc = "returned" /\ text_encoder.buffer = EnumerationItem(tag, code))

\* [tag, class of the registry, name]: names under tags with a class of their own
RegistryNames ==
    {<<s_OBJECT_TYPE, s_ObjectType, s_CERTIFICATE>>,
     <<s_CREDENTIAL_TYPE, s_CredentialType, s_DEVICE>>,
     <<s_STATE, s_State, s_ACTIVE>>}

\* C20: an ENUMERATION line carries a decimal number or a symbolic name. Every
\* operation name and its decimal code under OPERATION encode to the same bytes, the
\* item of that code; the codes of the operation names are those of the registry; a
\* name under another tag and the decimal code the registry gives it encode to the
\* same bytes, the item of that code.
C20_NameOrNumber ==
    /\ \A i \in 1..Len(OperationNames) :
           /\ EncodesAs(s_OPERATION, OperationNames[i], i)
           /\ EncodesAs(s_OPERATION, Digits(i), i)
    /\ \A nm \in DOMAIN OperationTable :
           nm \in DOMAIN enum_mapping /\ enum_mapping[nm] = OperationTable[nm]
    /\ \A rn \in RegistryNames :
           /\ EncodesAs(rn[1], rn[3], enums[rn[2]][rn[3]])
           /\ EncodesAs(rn[1], Digits(enums[rn[2]][rn[3]]), enums[rn[2]][rn[3]])

\* 'OPERATION:ENUMERATION(4):CREATE' is encoded as the code 1
C20_Witness ==
    /\ tpc = "returned"
    /\ text_content = TextOf(OperationDoc(s_CREATE))
    /\ flat_elements[1].value = N(1)
    /\ text_encoder.buffer = <<66, 0, 92, 5, 0, 0, 0, 4, 0, 0, 0, 1, 0, 0, 0, 0>>

\* 'OPERATION:ENUMERATION(4):1' is encoded to the same bytes
C20_WitnessNumber ==
    /\ tpc = "returned"
    /\ text_content = TextOf(OperationDoc(<<49>>))
    /\ flat_elements[1].value = N(1)
    /\ text_encoder.buffer = <<66, 0, 92, 5, 0, 0, 0, 4, 0, 0, 0, 1, 0, 0, 0, 0>>

\* the last operation name, REPROVISION, is encoded as the code 53
C20_WitnessLast ==
    /\ tpc = "returned"
    /\ text_content = TextOf(OperationDoc(OperationNames[Len(OperationNames)]))
    /\ ValueField(text_encoder.buffer) = <<0, 0, 0, 53, 0, 0, 0, 0>>

\* a name under OBJECT_TYPE is resolved by the registry when the item is encoded
C20_WitnessRegistry ==
    /\ tpc = "returned"
    /\ text_content = TextOf(EnumerationDoc(<<s_OBJECT_TYPE, s_CERTIFICATE>>))
    /\ flat_elements[1].value = T(s_CERTIFICATE)
    /\ ValueField(text_encoder.buffer) = <<0, 0, 0, 1, 0, 0, 0, 0>>

(* ------------- loaders and converters of structured text -------------- *)

\* the types the pattern of parse_structured_line names
LineTypes ==
    {s_TEXT_STRING, s_BYTE_STRING, s_INTEGER, s_LONG_INTEGER, s_ENUMERATION, s_BOOLEAN,
     s_STRUCTURE, s_DATE_TIME}

\* [A-Z_]
IsTagChar(c) == (c >= 65 /\ c <= 90) \/ c = 95

\* the number of leading ASCII digits of s: what \d+ takes, the next character
\* being no digit
LeadingDigits(s) ==
    CHOOSE n \in 0..Len(s) : /\ \A i \in 1..n : IsDigit(s[i])
                             /\ (n < Len(s) => ~IsDigit(s[n + 1]))

\* parse_structured_line returns None
NoLine == [ok |-> FALSE, raised |-> FALSE, tag |-> <<>>, type |-> <<>>, indent |-> 0,
           value |-> PNone]

\* int(value) raises ValueError in parse_structured_line
LineRaised == [ok |-> FALSE, raised |-> TRUE, tag |-> <<>>, type |-> <<>>, indent |-> 0,
               value |-> PNone]

\* the dict parse_structured_line returns
ParsedLine(tag, data_type, indent_level, value) ==
    [ok |-> TRUE, raised |-> FALSE, tag |-> tag, type |-> data_type,
     indent |-> indent_level, value |-> value]

\* "Process the value based on type" in parse_structured_line
LineValue(tag, data_type, indent_level, value) ==
    IF data_type = s_STRUCTURE THEN ParsedLine(tag, data_type, indent_level, PList(<<>>))
    ELSE IF data_type = s_TEXT_STRING
    THEN ParsedLine(tag, data_type, indent_level,
                    PStr(IF StartsWith(value, t_BytearrayOpen) /\ EndsWith(value, t_BytearrayClose)
                         THEN SubSeq(value, 13, Len(value) - 2) ELSE value))
    ELSE IF data_type = s_BYTE_STRING
    THEN ParsedLine(tag, data_type, indent_level,
                    PStr(IF StartsWith(value, t_BytesOpen) /\ EndsWith(value, t_Quote)
                         THEN SubSeq(value, 3, Len(value) - 1) ELSE value))
    ELSE IF data_type \in {s_INTEGER, s_LONG_INTEGER}
    THEN IF ParseInt(value).ok
         THEN ParsedLine(tag, data_type, indent_level, PInt(ParseInt(value).v))
         ELSE LineRaised
    ELSE IF data_type \in {s_ENUMERATION, s_DATE_TIME}
    THEN ParsedLine(tag, data_type, indent_level,
                    IF ParseInt(value).ok THEN PInt(ParseInt(value).v) ELSE PStr(value))
    ELSE ParsedLine(tag, data_type, indent_level,
                    PBool(LowerStr(value) \in {t_true, t_1, t_yes}))

\* the rest of the pattern after the type and '(': \d+, ')', ':' and the value
MatchLength(tag, data_type, indent_level, rest) ==
    IF \/ LeadingDigits(rest) = 0
       \/ Len(rest) < LeadingDigits(rest) + 2
       \/ rest[LeadingDigits(rest) + 1] # 41
       \/ rest[LeadingDigits(rest) + 2] # 58
    THEN NoLine
    ELSE LineValue(tag, data_type, indent_level,
                   SubSeq(rest, LeadingDigits(rest) + 3, Len(rest)))

\* the pattern after the first ':': one of the types, then '('
MatchType(tag, indent_level, rest) ==
    IF tag = <<>> \/ (\E i \in 1..Len(tag) : ~IsTagChar(tag[i])) \/ ~Contains(rest, 40)
    THEN NoLine
    ELSE IF Before(rest, 40) \notin LineTypes THEN NoLine
    ELSE MatchLength(tag, Before(rest, 40), indent_level, After(rest, 40))

\* parse_structured_line(line) of convert_structured_to_json: the line without its
\* leading whitespace is matched against ^([A-Z_]+):(types)\((\d+)\):(.*)$
parse_structured_line(line) ==
    IF LStrip(line) = <<>> \/ ~Contains(LStrip(line), 58) THEN NoLine
    ELSE MatchType(Before(LStrip(line), 58), LeadingSpaces(line), After(LStrip(line), 58))

\* {"tag": ..., "type": ..., "value": ...} of a parsed line
Simple(l) == Elem(T(l.tag), T(l.type), l.value)

\* the index at which a run of lines indented by at least `atleast` ends: the first
\* index from `from` on whose line is indented less, or upto + 1
RunEnd(parsed_lines, from, upto, atleast) ==
    CHOOSE e \in from..(upto + 1) :
        /\ \A k \in from..(e - 1) : parsed_lines[k].indent >= atleast
        /\ (e <= upto => parsed_lines[e].indent < atleast)

RECURSIVE build_json_structure(_)
RECURSIVE ChildrenLines(_, _, _, _)
\* the loop "while j < children_end" of build_json_structure from index j on: the
\* direct children are the lines indented by target_indent, each with the deeper
\* lines that follow it; a deeper line that follows no direct child is passed over
ChildrenLines(parsed_lines, j, children_end, target_indent) ==
    IF j >= children_end THEN <<>>
    ELSE IF parsed_lines[j].indent # target_indent
    THEN ChildrenLines(parsed_lines, j + 1, children_end, target_indent)
    ELSE (IF RunEnd(parsed_lines, j + 1, children_end - 1, target_indent + 1) = j + 1
          THEN <<Simple(parsed_lines[j])>>
          ELSE build_json_structure(
                   SubSeq(parsed_lines, j,
                          RunEnd(parsed_lines, j + 1, children_end - 1, target_indent + 1) - 1)))
         \o ChildrenLines(parsed_lines,
                          RunEnd(parsed_lines, j + 1, children_end - 1, target_indent + 1),
                          children_end, target_indent)

RECURSIVE Siblings(_, _)
\* the loop "while i < len(parsed_lines)" of build_json_structure from index i on
Siblings(parsed_lines, i) ==
    IF i > Len(parsed_lines) THEN <<>>
    ELSE IF parsed_lines[i].type = s_STRUCTURE
    THEN <<Elem(T(parsed_lines[i].tag), T(parsed_lines[i].type),
                PList(ChildrenLines(parsed_lines, i + 1,
                                    RunEnd(parsed_lines, i + 1, Len(parsed_lines),
                                           parsed_lines[i].indent + 1),
                                    parsed_lines[i].indent + 1)))>>
         \o Siblings(parsed_lines,
                     RunEnd(parsed_lines, i + 1, Len(parsed_lines), parsed_lines[i].indent + 1))
    ELSE <<Simple(parsed_lines[i])>> \o Siblings(parsed_lines, i + 1)

\* build_json_structure(parsed_lines)
build_json_structure(parsed_lines) ==
    IF parsed_lines = <<>> THEN <<>>
    ELSE IF Len(parsed_lines) = 1 THEN <<Simple(parsed_lines[1])>>
    ELSE Siblings(parsed_lines, 1)

\* the lines of structured_text.strip().split('\n'), each parsed
LinesOf(structured_text) ==
    [i \in 1..Len(SplitOn(Strip(structured_text), 10)) |->
        parse_structured_line(SplitOn(Strip(structured_text), 10)[i])]

\* a function raised: nothing is returned
Failed == [ok |-> FALSE, data |-> <<>>]

\* convert_structured_to_json(structured_text): [ok, data], ok FALSE when a line
\* raises ValueError
convert_structured_to_json(structured_text) ==
    IF \E i \in 1..Len(LinesOf(structured_text)) : LinesOf(structured_text)[i].raised
    THEN Failed
    ELSE [ok |-> TRUE,
          data |-> build_json_structure(SelectSeq(LinesOf(structured_text),
                                                  LAMBDA l : l.ok))]

\* str(parsed["value"]) of a parsed line
StrOfValue(l) ==
    IF l.type = s_BOOLEAN THEN (IF l.value = PBool(TRUE) THEN t_True ELSE t_False)
    ELSE IF l.value.k = "int" THEN IntStr(l.value.n)
    ELSE l.value.s

\* parse_structured_line(line) of convert_to_csv: the same pattern and values, but a
\* STRUCTURE line gives None
parse_structured_line_csv(line) ==
    IF parse_structured_line(line).type = s_STRUCTURE THEN NoLine
    ELSE parse_structured_line(line)

\* the parsed lines of convert_structured_to_csv
CsvLinesOf(structured_text) ==
    [i \in 1..Len(SplitOn(Strip(structured_text), 10)) |->
        parse_structured_line_csv(SplitOn(Strip(structured_text), 10)[i])]

\* the row [tag, type, str(value)] of a parsed line
CsvRow(l) == <<l.tag, l.type, StrOfValue(l)>>

\* convert_structured_to_csv(structured_text): [ok, data], the rows
convert_structured_to_csv(structured_text) ==
    IF \E i \in 1..Len(CsvLinesOf(structured_text)) : CsvLinesOf(structured_text)[i].raised
    THEN Failed
    ELSE [ok |-> TRUE,
          data |-> [i \in 1..Len(SelectSeq(CsvLinesOf(structured_text), LAMBDA l : l.ok)) |->
                       CsvRow(SelectSeq(CsvLinesOf(structured_text), LAMBDA l : l.ok)[i])]]

\* a line of the text file that gives no element: blank, a comment, or not three parts
NoElement == [ok |-> FALSE, raised |-> FALSE, element |-> Malformed]

\* int(value) raises ValueError in load_from_text_file
ElementRaised == [ok |-> FALSE, raised |-> TRUE, element |-> Malformed]

\* "Convert value based on type" of load_from_text_file and the dict appended
TextElement(tag, tname, value) ==
    IF tname = s_INTEGER
    THEN IF ParseInt(value).ok
         THEN [ok |-> TRUE, raised |-> FALSE,
               element |-> Elem(T(tag), T(tname), PInt(ParseInt(value).v))]
         ELSE ElementRaised
    ELSE [ok |-> TRUE, raised |-> FALSE,
          element |-> Elem(T(tag), T(tname),
                           IF tname = s_BOOLEAN
                           THEN PBool(LowerStr(value) \in {t_true, t_1, t_yes})
                           ELSE IF tname = s_ENUMERATION /\ ParseInt(value).ok
                           THEN PInt(ParseInt(value).v)
                           ELSE PStr(value))]

\* the body of the loop of load_from_text_file for a stripped line: TAG,TYPE,VALUE
TextLine(line) ==
    IF line = <<>> \/ line[1] = 35 THEN NoElement
    ELSE IF ~Contains(line, 44) \/ ~Contains(After(line, 44), 44) THEN NoElement
    ELSE TextElement(Strip(Before(line, 44)), Strip(Before(After(line, 44), 44)),
                     Strip(After(After(line, 44), 44)))

\* the lines of the file, each stripped and read
TextLinesOf(content) ==
    [i \in 1..Len(SplitOn(content, 10)) |-> TextLine(Strip(SplitOn(content, 10)[i]))]

\* load_from_text_file(filename) on a file with that content: [ok, data], ok FALSE
\* when it returns None
load_from_text_file(content) ==
    IF \E i \in 1..Len(TextLinesOf(content)) : TextLinesOf(content)[i].raised THEN Failed
    ELSE [ok |-> TRUE,
          data |-> [i \in 1..Len(SelectSeq(TextLinesOf(content), LAMBDA l : l.ok)) |->
                       SelectSeq(TextLinesOf(content), LAMBDA l : l.ok)[i].element]]

\* load_from_structured_text_file(filename) on a file with that content
load_from_structured_text_file(content) ==
    [ok |-> TRUE, data |-> convert_structured_to_flat(parse_structured_text(content))]

(* --------------------- inputs: files and literals --------------------- *)

\* BOOLEAN literals
BoolLiterals ==
    {
      <<116, 114, 117, 101>>,   \* true
      <<84, 114, 117, 101>>,   \* True
      <<84, 82, 85, 69>>,   \* TRUE
      <<116, 82, 117, 69>>,   \* tRuE
      <<49>>,   \* 1
      <<121, 101, 115>>,   \* yes
      <<89, 69, 83>>,   \* YES
      <<89, 101, 115>>,   \* Yes
      <<102, 97, 108, 115, 101>>,   \* false
      <<70, 97, 108, 115, 101>>,   \* False
      <<48>>,   \* 0
      <<110, 111>>,   \* no
      <<111, 110>>,   \* on
      <<50>>,   \* 2
      <<48, 49>>,   \* 01
      <<121>>,   \* y
      <<116>>,   \* t
      <<116, 114, 117, 101, 101>>,   \* truee
      <<116, 114, 117, 101, 32, 121, 101, 115>>,   \* true yes
      <<>>    \* empty
    }

\* the structured line of a BOOLEAN literal
BooleanDoc(lit) == <<Line(0, s_ATTRIBUTE_VALUE, s_BOOLEAN, <<56>>, lit)>>

\* a line TAG,TYPE,VALUE of a text file
CsvLine(tag, type, value) == tag \o <<44>> \o type \o <<44>> \o value

\* the text file of a BOOLEAN literal
BooleanFile(lit) == CsvLine(s_ATTRIBUTE_VALUE, s_BOOLEAN, lit) \o <<10>>

\* structured texts with a literal surrounded by spaces, a tag with a digit, and the
\* types the converters' pattern does not name
MoreDocs ==
    {<<Line(0, s_BATCH_ITEM, s_STRUCTURE, <<48>>, t_stru \o <<49>>),
       Line(1, s_ATTRIBUTE_VALUE, s_BOOLEAN, <<56>>, <<32, 121, 101, 115, 32>>),
       Line(1, s_BATCH_COUNT, s_INTEGER, <<52>>, <<49>>)>>,
     <<Line(0, s_BATCH_ITEM, s_STRUCTURE, <<48>>, t_stru \o <<49>>),
       Line(1, s_CRYPTOGRAPHIC_LENGTH, s_INTERVAL, <<52>>, <<54, 48>>),
       Line(1, s_BATCH_COUNT, s_INTEGER, <<52>>, <<49>>)>>,
     <<Line(0, s_BATCH_ITEM, s_STRUCTURE, <<48>>, t_stru \o <<49>>),
       Line(1, s_CRYPTOGRAPHIC_LENGTH, s_BIG_INTEGER, <<56>>, <<53>>)>>,
     <<Line(0, s_X_509_CERTIFICATE_IDENTIFIER, s_STRUCTURE, <<48>>, t_stru \o <<49>>),
       Line(1, s_BATCH_COUNT, s_INTEGER, <<52>>, <<49>>)>>,
     <<Line(0, s_BATCH_ITEM, s_STRUCTURE, <<48>>, t_stru \o <<49>>),
       Line(1, s_BATCH_ITEM, s_STRUCTURE, <<48>>, t_stru \o <<50>>),
       Line(2, s_BATCH_ITEM, s_STRUCTURE, <<48>>, t_stru \o <<51>>),
       Line(3, s_BATCH_COUNT, s_INTEGER, <<52>>, <<49>>),
       Line(1, s_BATCH_COUNT, s_INTEGER, <<52>>, <<50>>),
       Line(0, s_BATCH_COUNT, s_INTEGER, <<52>>, <<51>>)>>}

\* the contents of the structured files read and converted
StructuredFiles ==
    Texts \cup {TextOf(BooleanDoc(lit)) : lit \in BoolLiterals}
    \cup {TextOf(doc) : doc \in MoreDocs}

\* the contents of the text files read: BOOLEAN literals, the example of the usage
\* text, comments, blank lines, lines of fewer than three parts, spaces around the
\* parts, a value with commas, and an INTEGER that is no number
TextFiles ==
    {BooleanFile(lit) : lit \in BoolLiterals}
    \cup {CsvLine(s_ATTRIBUTE_NAME, s_TEXT_STRING, t_ObjectType) \o <<10>>
              \o CsvLine(s_ATTRIBUTE_VALUE, s_INTEGER, <<52, 50>>) \o <<10>>
              \o CsvLine(s_OPERATION, s_ENUMERATION, s_CREATE) \o <<10>>,
          <<35, 32, 110, 111, 116, 101, 10, 10>>
              \o CsvLine(s_ATTRIBUTE_VALUE, s_BOOLEAN, <<32, 89, 101, 115, 32>>) \o <<10>>
              \o s_BATCH_COUNT \o <<44>> \o s_INTEGER \o <<10>>
              \o CsvLine(<<32>> \o s_OPERATION \o <<32>>, <<32>> \o s_ENUMERATION, <<32, 49>>),
          CsvLine(s_USERNAME, s_TEXT_STRING, <<97, 44, 98, 44, 99>>),
          CsvLine(s_BATCH_COUNT, s_INTEGER, <<97, 98, 99>>) \o <<10>>
              \o CsvLine(s_ATTRIBUTE_VALUE, s_BOOLEAN, <<49>>),
          CsvLine(s_OPERATION, s_ENUMERATION, s_FOO),
          <<>>}

(* ------------------ the command line and the converters --------------- *)

\* the process has not run yet: one file is read or converted per run
AtRest == fpc = "idle"

\* what main() does with the elements a loader returns: "if not elements: exit"
Load(option, content, r) ==
    /\ command' = option
    /\ file_content' = content
    /\ loaded' = r.data
    /\ fpc' = IF r.ok /\ r.data # <<>> THEN "loaded" ELSE "exit"
    /\ json_data' = <<>>
    /\ csv_rows' = <<>>
    /\ file_encoder' = EncodeTTLV
    /\ UNCHANGED <<encvars, textvars>>

\* --text: elements = load_from_text_file(args.text)
LoadFromTextFile(content) ==
    /\ AtRest
    /\ Load("--text", content, load_from_text_file(content))

\* --structured: elements = load_from_structured_text_file(args.structured)
LoadFromStructuredTextFile(content) ==
    /\ AtRest
    /\ Load("--structured", content, load_from_structured_text_file(content))

\* encoder = encode_ttlv_structure(elements), then save_output, or the exception
EncodeLoaded ==
    /\ fpc = "loaded"
    /\ \E r \in {encode_ttlv_structure(loaded)} :
           /\ file_encoder' = r.encoder
           /\ fpc' = IF r.ok THEN "saved" ELSE "error"
    /\ UNCHANGED <<command, file_content, loaded, json_data, csv_rows, encvars, textvars>>

\* json_data = convert_structured_to_json(structured_text) in convert_file
ConvertStructuredToJson(structured_text) ==
    /\ AtRest
    /\ command' = "to_json"
    /\ file_content' = structured_text
    /\ \E r \in {convert_structured_to_json(structured_text)} :
           /\ json_data' = r.data
           /\ fpc' = IF r.ok THEN "converted" ELSE "failed"
    /\ loaded' = <<>>
    /\ csv_rows' = <<>>
    /\ file_encoder' = EncodeTTLV
    /\ UNCHANGED <<encvars, textvars>>

\* csv_rows = convert_structured_to_csv(structured_text) in convert_file
ConvertStructuredToCsv(structured_text) ==
    /\ AtRest
    /\ command' = "to_csv"
    /\ file_content' = structured_text
    /\ \E r \in {convert_structured_to_csv(structured_text)} :
           /\ csv_rows' = r.data
           /\ fpc' = IF r.ok THEN "converted" ELSE "failed"
    /\ loaded' = <<>>
    /\ json_data' = <<>>
    /\ file_encoder' = EncodeTTLV
    /\ UNCHANGED <<encvars, textvars>>

NextFiles ==
    \/ \E content \in TextFiles : LoadFromTextFile(content)
    \/ \E content \in StructuredFiles : LoadFromStructuredTextFile(content)
    \/ EncodeLoaded
    \/ \E structured_text \in StructuredFiles : ConvertStructuredToJson(structured_text)
    \/ \E structured_text \in StructuredFiles : ConvertStructuredToCsv(structured_text)

SpecFiles == Init /\ [][NextFiles]_vars

(* ------------------------------ C21 ----------------------------------- *)

\* the two texts are equal when letter case is ignored
SameIgnoringCase(a, b) ==
    Len(a) = Len(b) /\ \A i \in 1..Len(a) : Lower(a[i]) = Lower(b[i])

\* the literal is one of 'true', '1', 'yes', whatever its letter case
IsTrueLiteral(lit) == \E word \in {t_true, t_1, t_yes} : SameIgnoringCase(lit, word)

\* the BOOLEAN element under ATTRIBUTE_VALUE with that truth value
BooleanElement(b) == Elem(T(s_ATTRIBUTE_VALUE), T(s_BOOLEAN), IF b THEN N(1) ELSE N(0))

\* the run has read its file or converted its text
Ran(option, content) == fpc # "idle" /\ command = option /\ file_content = content

C21_WitnessTextFile ==
    /\ Ran("--text", BooleanFile(<<111, 110>>))
    /\ fpc = "saved"
    /\ loaded[1].value = N(0)
    /\ ValueField(file_encoder.buffer) = Zeros(8)

\* the converters give true for 'True'
C21_WitnessConverters ==
    /\ file_content = TextOf(BooleanDoc(<<84, 114, 117, 101>>))
    /\ \/ command = "to_json" /\ json_data[1].value = N(1)
       \/ command = "to_csv" /\ csv_rows[1][3] = t_True

\* the parser strips the value before it compares it: the line
\* ' ATTRIBUTE_VALUE:BOOLEAN(8): yes ' inside a structure is loaded as true
C21_ParserStripsLiteral ==
    /\ Ran("--structured", TextOf(<<Line(0, s_BATCH_ITEM, s_STRUCTURE, <<48>>, t_stru \o <<49>>),
                                    Line(1, s_ATTRIBUTE_VALUE, s_BOOLEAN, <<56>>, <<32, 121, 101, 115, 32>>),
                                    Line(1, s_BATCH_COUNT, s_INTEGER, <<52>>, <<49>>)>>))
    /\ loaded[1].value.kids[1].value = N(1)

\* the converters compare the value with the spaces around it: the same line is
\* converted to false
C21_ConverterKeepsSpaces ==
    /\ Ran("to_json", TextOf(<<Line(0, s_BATCH_ITEM, s_STRUCTURE, <<48>>, t_stru \o <<49>>),
                               Line(1, s_ATTRIBUTE_VALUE, s_BOOLEAN, <<56>>, <<32, 121, 101, 115, 32>>),
                               Line(1, s_BATCH_COUNT, s_INTEGER, <<52>>, <<49>>)>>))
    /\ json_data[1].value.kids[1].value = N(0)

(* ------------------------------ C22 ----------------------------------- *)

\* the line 'USERNAME:TEXT_STRING(n):value', n being the length of the value
TextStringLine(value) ==
    s_USERNAME \o <<58>> \o s_TEXT_STRING \o <<40>> \o Digits(Len(value)) \o <<41, 58>> \o value

\* TEXT_STRING values as written after the colon: plain texts, a text with spaces
\* around it, and texts that look like b'...' and bytearray(b'...')
WrittenTexts ==
    TextLiterals \cup {<<32, 97, 32, 98, 32>>}

\* C22: parsing a TEXT_STRING line yields exactly the text written after the colon of
\* the type annotation, character for character, for every text value.
C22_TextAsWritten ==
    \A value \in WrittenTexts :
        (Parsed /\ text_content = TextStringLine(value)) =>
            /\ Len(structured_elements) = 1
            /\ structured_elements[1].value = T(value)

\* the value ' a b ' is parsed as 'a b': the spaces around it are stripped
C22_SpacesStripped ==
    /\ Parsed
    /\ text_content = TextStringLine(<<32, 97, 32, 98, 32>>)
    /\ structured_elements[1].value = T(<<97, 32, 98>>)

\* the value b'abc' is parsed as abc: what looks like a printed bytes object is
\* unwrapped
C22_WrapperRemoved ==
    /\ Parsed
    /\ text_content = TextStringLine(<<98, 39, 97, 98, 99, 39>>)
    /\ structured_elements[1].value = T(<<97, 98, 99>>)

\* a plain text is parsed as written
C22_PlainTextKept ==
    /\ Parsed
    /\ text_content = TextStringLine(s_MyTestKey)
    /\ structured_elements[1].value = T(s_MyTestKey)

(* ------------------------------ C23 ----------------------------------- *)

\* the list holds an item that is no dict with the keys 'tag', 'type', 'value'
HasMalformed(elements) == \E i \in 1..Len(elements) : ~elements[i].wf

\* the position of the first such item
FirstMalformed(elements) ==
    CHOOSE i \in 1..Len(elements) : ~elements[i].wf /\ \A j \in 1..(i - 1) : elements[j].wf

\* C23: a pass of encode_ttlv_structure over a list with an item that is no dict, or
\* a dict without 'tag', 'type' or 'value', never returns an encoder: it goes on no
\* further than that item and ends by raising there (or at an element before it that
\* cannot be encoded).
C23_MalformedElementRaises ==
    \A p \in Passes :
        HasMalformed(plist[p]) =>
            /\ pstatus[p] # "returned"
            /\ pidx[p] < FirstMalformed(plist[p])
            /\ (pidx[p] = FirstMalformed(plist[p]) - 1
                    /\ pstatus[p] \in {"raised", "returned"}) => pstatus[p] = "raised"

\* a pass over [BATCH_COUNT, not a dict, OPERATION] raised at its second item, having
\* encoded the first
C23_Witness ==
    \E p \in Passes :
        /\ plist[p] = <<BatchCount, Malformed, Operation1>>
        /\ pstatus[p] = "raised"
        /\ pidx[p] = 1
        /\ Len(encs[p].buffer) = 16

\* passes over lists with a dict that lacks 'tag', 'type' or 'value' raised as well
C23_WitnessLackingKeys ==
    /\ plist[1] = <<Lacking("tag")>> /\ pstatus[1] = "raised" /\ pidx[1] = 0
    /\ plist[2] = <<Operation1, Lacking("type"), BatchCount>>
    /\ pstatus[2] = "raised" /\ pidx[2] = 1

(* ------------------------------ C24 ----------------------------------- *)

\* the frame of the last call: what the call writes on an encoder that holds the
\* attribute context of the moment and nothing else
OwnFrame ==
    encode_ttlv([buffer |-> <<>>, attribute_name |-> last.attribute_name0],
                last.element.tag, last.element.type, last.element.value).buffer

\* the last call left the earlier bytes in place and put its frame after them
AppendedFrame ==
    /\ Len(buffer) >= Len(last.buffer0)
    /\ SubSeq(buffer, 1, Len(last.buffer0)) = last.buffer0
    /\ buffer = last.buffer0 \o OwnFrame

\* C24: the buffer is append-only: a successful call leaves the bytes already in the
\* buffer unchanged as a prefix and puts its frame after them, so that the buffer is
\* the frames of the calls in call order, and the call returns the number of bytes
\* it added, which is 8 plus the padded length of the value.
C24_AppendOnlyFrames ==
    (last.made /\ last.ok) =>
        /\ AppendedFrame
        /\ last.ret = Len(buffer) - Len(last.buffer0)
        /\ last.ret = 8 + Ceil8(LengthField(LastFrame))

\* what holds of every successful call: the frame is appended and the value returned
\* is the number of bytes added, the 8 header bytes and the value bytes as written
C24_ReturnsBytesAdded ==
    (last.made /\ last.ok) =>
        /\ AppendedFrame
        /\ last.ret = Len(buffer) - Len(last.buffer0)
        /\ last.ret = 8 + Len(ValueField(LastFrame))

\* a second successful call on a buffer that already holds a frame
C24_SecondCall ==
    /\ last.made /\ last.ok
    /\ calls = 2
    /\ Len(last.buffer0) >= 16
    /\ last.ret >= 16
    /\ Len(buffer) = Len(last.buffer0) + last.ret

\* a successful call that returned a number that is no multiple of 8: a structure
\* given as 3 bytes
C24_ReturnsEleven ==
    /\ Returned({s_STRUCTURE})
    /\ last.element.value.k = "bytes"
    /\ last.ret = 11

(* ------------------------------ C25 ----------------------------------- *)

RECURSIVE OwnFrames(_)
\* the frames of the children, each written by an encoder of its own that starts
\* with an empty buffer and an empty attribute context
OwnFrames(kids) ==
    IF kids = <<>> THEN <<>>
    ELSE encode_ttlv(EncodeTTLV, Head(kids).tag, Head(kids).type, Head(kids).value).buffer
             \o OwnFrames(Tail(kids))

\* the last call on an encoder that was just made
Alone ==
    encode_ttlv(EncodeTTLV, last.element.tag, last.element.type, last.element.value)

\* C25: the frame of a structure's child depends only on the child's tag, type and
\* value: a STRUCTURE call succeeds or fails, and writes the same frame, whatever the
\* attribute context of the enclosing encoder is; the value of a structure given as a
\* list is the frames its children have on encoders of their own; the call does not
\* consult the enclosing context and leaves it as it was, also when a child is an
\* ATTRIBUTE_NAME.
C25_ChildrenIsolated ==
    (last.made /\ IsType(last.element, s_STRUCTURE)) =>
        /\ last.ok = Alone.ok
        /\ attribute_name = last.attribute_name0
        /\ ~last.read
        /\ last.ok =>
               /\ LastFrame = Alone.buffer
               /\ IsChildList(last.element) =>
                      ValueField(LastFrame) = OwnFrames(WellFormed(last.element.value.kids))

\* with the context 'Object Type' on the enclosing encoder, the structure of
\* ATTRIBUTE_NAME 'Cryptographic Algorithm' and ATTRIBUTE_VALUE 'AES' is written and
\* the context is 'Object Type' afterwards
C25_Witness ==
    /\ last.made /\ last.ok
    /\ last.element = Attribute(t_CryptographicAlgorithm, s_AES)
    /\ last.attribute_name0 = t_ObjectType
    /\ attribute_name = t_ObjectType

\* the context of the enclosing encoder does not reach the child: under 'Object
\* Type' the child ATTRIBUTE_VALUE 'CERTIFICATE' of a structure is written as 6, the
\* code of the built-in table, as it is with no context
C25_WitnessOuterContext ==
    /\ last.made /\ last.ok
    /\ last.element = Attribute(t_ObjectType, s_CERTIFICATE)
    /\ last.attribute_name0 = t_ObjectType
    /\ SubSeq(LastFrame, Len(LastFrame) - 7, Len(LastFrame)) = <<0, 0, 0, 6, 0, 0, 0, 0>>

\* an ATTRIBUTE_NAME inside a structure leaves the encoder's context empty: the
\* ATTRIBUTE_VALUE 'CERTIFICATE' encoded next on the same encoder is written as 6
C25_WitnessInnerName ==
    /\ last.made /\ last.ok
    /\ last.element = AttrValue(s_CERTIFICATE)
    /\ last.buffer0 = OwnFrames(<<Attribute(t_ObjectType, s_CERTIFICATE)>>)
    /\ last.attribute_name0 = <<>>
    /\ ValueField(LastFrame) = <<0, 0, 0, 6, 0, 0, 0, 0>>

(* ------------------------------ C26 ----------------------------------- *)

RECURSIVE WithoutMalformed(_)
\* the element with, at every depth, the items that are no dicts with the three keys
\* taken out of the lists, and an empty list for a STRUCTURE value that is neither a
\* list nor bytes
WithoutMalformed(element) ==
    IF ~IsType(element, s_STRUCTURE) \/ element.value.k = "bytes" THEN element
    ELSE IF element.value.k = "list"
    THEN [element EXCEPT !.value =
              PList([i \in 1..Len(WellFormed(element.value.kids)) |->
                         WithoutMalformed(WellFormed(element.value.kids)[i])])]
    ELSE [element EXCEPT !.value = PList(<<>>)]

\* the elements pass p has encoded
Done(p) == SubSeq(plist[p], 1, pidx[p])

\* the element pass p is at, if any
AtElement(p) == pstatus[p] \in {"running", "raised"} /\ pidx[p] < Len(plist[p])

\* C26: inside a structure an item that is no dict with the keys 'tag', 'type' and
\* 'value' is passed over without an error and adds nothing: the structure is encoded
\* as it is without the item; a STRUCTURE value that is neither a list nor bytes is
\* encoded as the empty structure; at the top level of encode_ttlv_structure such an
\* item is never passed over: the pass ends there and returns no encoder.
C26_SkippedInsideRaisedOutside ==
    \A p \in Passes :
        /\ AllWellFormed(Done(p))
        /\ pstatus[p] = "returned" => AllWellFormed(plist[p])
        /\ CallEach(EncodeTTLV, [i \in 1..pidx[p] |-> WithoutMalformed(plist[p][i])]).ok
        /\ encs[p].buffer =
               CallEach(EncodeTTLV,
                        [i \in 1..pidx[p] |-> WithoutMalformed(plist[p][i])]).encoder.buffer
        /\ (AtElement(p) /\ plist[p][pidx[p] + 1].wf) =>
               encode_ttlv(encs[p], plist[p][pidx[p] + 1].tag, plist[p][pidx[p] + 1].type,
                           plist[p][pidx[p] + 1].value).ok
                   = encode_ttlv(encs[p], plist[p][pidx[p] + 1].tag, plist[p][pidx[p] + 1].type,
                                 WithoutMalformed(plist[p][pidx[p] + 1]).value).ok

\* BATCH_ITEM [BATCH_COUNT, not a dict, USERNAME 'MyTestKey'] has length 16 + 24 = 40,
\* and the STRUCTURE with the value None after it is 8 bytes with length 0
C26_Witness ==
    \E p \in Passes :
        /\ pstatus[p] = "returned"
        /\ Len(plist[p]) = 2
        /\ plist[p][1] = Struct(s_BATCH_ITEM,
                                <<BatchCount, Malformed,
                                  Elem(T(s_USERNAME), T(s_TEXT_STRING), T(s_MyTestKey))>>)
        /\ plist[p][2].value = PNone
        /\ Len(encs[p].buffer) = 56
        /\ LengthField(encs[p].buffer) = 40
        /\ SubSeq(encs[p].buffer, 52, 56) = <<1, 0, 0, 0, 0>>

\* the same item at the top level ends the pass: [BATCH_COUNT, not a dict, OPERATION]
C26_WitnessTopLevel ==
    \E p \in Passes :
        /\ plist[p] = <<BatchCount, Malformed, Operation1>>
        /\ pstatus[p] = "raised"
        /\ pidx[p] = 1

\* a dict without 'value' two levels down is passed over, and the STRUCTURE values 5
\* and 'FOO' give empty structures
C26_WitnessOtherValues ==
    /\ pstatus[1] = "returned" /\ pstatus[2] = "returned"
    /\ Len(plist[1]) = 2 /\ plist[1][2].value = N(5)
    /\ Len(encs[1].buffer) = 40
    /\ plist[1][1].value.kids[1].value.kids[1] = Lacking("value")
    /\ SubSeq(encs[1].buffer, 5, 8) = <<0, 0, 0, 24>>
    /\ SubSeq(encs[1].buffer, 36, 40) = <<1, 0, 0, 0, 0>>
    /\ Len(plist[2]) = 2 /\ plist[2][1].value = T(s_FOO)
    /\ SubSeq(encs[2].buffer, 4, 8) = <<1, 0, 0, 0, 0>>

(* ------------------------------ C27 ----------------------------------- *)

RECURSIVE LexLess(_, _)
\* a < b for two byte strings of one length, big-endian
LexLess(a, b) ==
    /\ a # <<>>
    /\ \/ a[1] < b[1]
       \/ a[1] = b[1] /\ LexLess(Tail(a), Tail(b))

\* a < b for two magnitudes without leading zero bytes
MagLess(a, b) == Len(a) < Len(b) \/ (Len(a) = Len(b) /\ LexLess(a, b))

\* the integer v is below lo (a number that is not positive) or above hi
Beyond(v, lo, hi) == IF v.neg THEN MagLess(lo.mag, v.mag) ELSE MagLess(hi.mag, v.mag)

\* an integer value outside the width of its type on the wire
OutsideWidth(element) ==
    /\ element.value.k = "int"
    /\ \/ (IsType(element, s_INTEGER) \/ IsType(element, s_INTERVAL))
              /\ Beyond(element.value.n, Int32Min, Int32Max)
       \/ IsType(element, s_LONG_INTEGER) /\ Beyond(element.value.n, Int64Min, Int64Max)
       \/ IsType(element, s_ENUMERATION) /\ Beyond(element.value.n, I(0), UInt32Max)

\* C27: an INTEGER or INTERVAL value outside the signed 32-bit range, a LONG_INTEGER
\* value outside the signed 64-bit range and an ENUMERATION value outside the
\* unsigned 32-bit range make encode_ttlv fail: no frame with the value wrapped is
\* written, and the buffer is what it was before the call.
C27_OutOfRangeFails ==
    (last.made /\ OutsideWidth(last.element)) =>
        /\ ~last.ok
        /\ buffer = last.buffer0

\* INTEGER 2^31 after a successful call: the call fails and the buffer keeps the
\* first frame
C27_Witness ==
    /\ last.made /\ ~last.ok
    /\ last.element = Elem(T(s_CRYPTOGRAPHIC_LENGTH), T(s_INTEGER), PInt(Int32Over))
    /\ Len(last.buffer0) >= 16
    /\ buffer = last.buffer0

\* INTERVAL -2^31 - 1 fails
C27_WitnessInterval ==
    /\ last.made /\ ~last.ok
    /\ last.element = Elem(T(s_CRYPTOGRAPHIC_LENGTH), T(s_INTERVAL), PInt(Int32Under))

\* LONG_INTEGER 2^63 fails
C27_WitnessLongOver ==
    /\ last.made /\ ~last.ok
    /\ last.element = Elem(T(s_CRYPTOGRAPHIC_LENGTH), T(s_LONG_INTEGER), PInt(Int64Over))

\* LONG_INTEGER -2^63 - 1 fails
C27_WitnessLongUnder ==
    /\ last.made /\ ~last.ok
    /\ last.element = Elem(T(s_CRYPTOGRAPHIC_LENGTH), T(s_LONG_INTEGER), PInt(Int64Under))

\* ENUMERATION 2^32 fails
C27_WitnessEnumerationOver ==
    /\ last.made /\ ~last.ok
    /\ last.element = Elem(T(s_OPERATION), T(s_ENUMERATION), PInt(UInt32Over))

\* ENUMERATION -1 fails
C27_WitnessEnumerationNegative ==
    /\ last.made /\ ~last.ok
    /\ last.element = Elem(T(s_OPERATION), T(s_ENUMERATION), N(0 - 1))

\* the values at the ends of the ranges are in range and are encoded
C27_WitnessInRange ==
    /\ last.made /\ last.ok
    /\ ~OutsideWidth(last.element)
    /\ last.element.value \in {PInt(Int32Max), PInt(Int32Min), PInt(Int64Max), PInt(Int64Min),
                               PInt(UInt32Max)}

(* ------------------------------ C28 ----------------------------------- *)

\* the lines of the text as the parser splits them
TextLines(text) == SplitOn(Strip(text), 10)

\* what stands after the first ':' of the line
AfterTag(line) == After(Strip(line), 58)

\* the line has a tag, a type and a length in parentheses: a ':' and after it a '('
\* and later a ')'
HasTagTypeLength(line) ==
    /\ Contains(Strip(line), 58)
    /\ Contains(AfterTag(line), 41)
    /\ Contains(Before(AfterTag(line), 41), 40)

\* the tag and the type written on such a line
TagOnLine(line) == Strip(Before(Strip(line), 58))

TypeOnLine(line) == Strip(Before(AfterTag(line), 40))

\* the value written on such a line
ValueOnLine(line) ==
    IF Contains(After(AfterTag(line), 41), 58) THEN Strip(After(After(AfterTag(line), 41), 58))
    ELSE Strip(After(AfterTag(line), 41))

\* a BYTE_STRING line whose value is written as b'...' with something else than pairs
\* of hex digits between the quotes
BrokenHex(line) ==
    /\ TypeOnLine(line) = s_BYTE_STRING
    /\ StartsWith(ValueOnLine(line), t_BytesOpen) /\ EndsWith(ValueOnLine(line), t_Quote)
    /\ ~fromhex(SubSeq(ValueOnLine(line), 3, Len(ValueOnLine(line)) - 1)).ok

\* the tags and types of the lines, in the order of the lines
TagsAndTypes(lines) == [i \in 1..Len(lines) |-> <<TagOnLine(lines[i]), TypeOnLine(lines[i])>>]

RECURSIVE PreOrder(_)
\* the tags and types met on a depth-first pre-order walk of a list of elements
PreOrder(elements) ==
    IF elements = <<>> THEN <<>>
    ELSE <<<<Head(elements).tag.s, Head(elements).type.s>>>>
         \o (IF Head(elements).value.k = "list" THEN PreOrder(Head(elements).value.kids)
             ELSE <<>>)
         \o PreOrder(Tail(elements))

RECURSIVE OnlyElementKeys(_)
\* every element of the tree is a dict of 'tag', 'type' and 'value' and nothing else
OnlyElementKeys(elements) ==
    \A i \in 1..Len(elements) :
        /\ DOMAIN elements[i] = {"wf", "tag", "type", "value"}
        /\ elements[i].wf
        /\ elements[i].value.k = "list" => OnlyElementKeys(elements[i].value.kids)

\* convert_structured_to_flat has returned
Converted == tpc \in {"encode", "returned", "raised"}

\* C28 as stated: every line that has a tag, a type and a parenthesised length is in
\* the tree parse_structured_text and convert_structured_to_flat build, once, and a
\* depth-first pre-order walk of the tree meets the elements in the order of their
\* lines; the elements carry no 'indent_level' and no 'children'.
C28_NothingLost ==
    Converted =>
        /\ PreOrder(flat_elements)
               = TagsAndTypes(SelectSeq(TextLines(text_content), HasTagTypeLength))
        /\ OnlyElementKeys(flat_elements)

\* C28, amended: the same of every line that has a tag, a type and a parenthesised
\* length and is no BYTE_STRING line with a b'...' value that is not hex; such a line
\* is left out and the lines around it are kept.
C28_ParsedLinesOnceInOrder ==
    Converted =>
        /\ PreOrder(flat_elements)
               = TagsAndTypes(SelectSeq(TextLines(text_content),
                                        LAMBDA line : HasTagTypeLength(line) /\ ~BrokenHex(line)))
        /\ OnlyElementKeys(flat_elements)

\* the six lines of a request are six elements in the order of the lines
C28_Witness ==
    /\ Converted
    /\ text_content = TextOf(RequestDoc(1, 0))
    /\ Len(PreOrder(flat_elements)) = 6
    /\ PreOrder(flat_elements) = TagsAndTypes(TextLines(text_content))
    /\ Len(flat_elements) = 1

\* the line USERNAME:BYTE_STRING(2):b'zz' between a structure and its INTEGER child
\* is not in the tree
C28_LineLost ==
    /\ Converted
    /\ Len(TextLines(text_content)) = 3
    /\ HasTagTypeLength(TextLines(text_content)[2])
    /\ BrokenHex(TextLines(text_content)[2])
    /\ PreOrder(flat_elements) = <<<<s_BATCH_ITEM, s_STRUCTURE>>, <<s_BATCH_COUNT, s_INTEGER>>>>
    /\ Len(flat_elements) = 1

(* ------------------------------ C29 ----------------------------------- *)

\* the line yields an element: it has a tag, a type and a length, and its value
\* does not raise
Accepted(line) == HasTagTypeLength(line) /\ ~BrokenHex(line)

\* the numbers of the lines of the text that yield an element
AcceptedNumbers(text) ==
    SelectSeq([i \in 1..Len(TextLines(text)) |-> i],
              LAMBDA i : Accepted(TextLines(text)[i]))

RECURSIVE DocOrder(_)
\* the elements parse_structured_text returns and their descendants, in document
\* order
DocOrder(nodes) ==
    IF nodes = <<>> THEN <<>>
    ELSE <<Head(nodes)>> \o DocOrder(Head(nodes).children) \o DocOrder(Tail(nodes))

\* the literal is a decimal number as int() reads it: an optional sign, then digits,
\* with single underscores between digits at most
IsDecimalLiteral(s) ==
    \E body \in {IF s # <<>> /\ s[1] \in {43, 45} THEN Tail(s) ELSE s} :
        /\ body # <<>>
        /\ \A i \in 1..Len(body) : body[i] \in 48..57 \/ body[i] = 95
        /\ body[1] # 95 /\ body[Len(body)] # 95
        /\ \A i \in 1..(Len(body) - 1) : ~(body[i] = 95 /\ body[i + 1] = 95)

\* s holds sub
Occurs(s, sub) == \E j \in 1..(Len(s) - Len(sub) + 1) : SubSeq(s, j, j + Len(sub) - 1) = sub

\* line h of the text is a structure header that is skipped
SkippedHeader(text, h) ==
    /\ ~Accepted(TextLines(text)[h])
    /\ Occurs(TextLines(text)[h], s_STRUCTURE)

\* line i stands under line h: it and the lines between them are indented deeper
\* than line h
Under(text, i, h) ==
    /\ i > h
    /\ \A m \in (h + 1)..i :
           Strip(TextLines(text)[m]) # <<>> =>
               LeadingSpaces(TextLines(text)[m]) > LeadingSpaces(TextLines(text)[h])

\* the nearest structure before element k that is still open at k: it is indented
\* less than k and no element after it is indented as little as it is; 0 if none
NearestOpen(f, k) ==
    IF \E j \in 1..(k - 1) :
           /\ f[j].structure
           /\ f[j].indent_level < f[k].indent_level
           /\ \A m \in (j + 1)..(k - 1) : f[m].indent_level > f[j].indent_level
    THEN CHOOSE j \in 1..(k - 1) :
             /\ f[j].structure
             /\ f[j].indent_level < f[k].indent_level
             /\ \A m \in (j + 1)..(k - 1) : f[m].indent_level > f[j].indent_level
             /\ \A i \in (j + 1)..(k - 1) :
                    ~(/\ f[i].structure
                      /\ f[i].indent_level < f[k].indent_level
                      /\ \A m \in (i + 1)..(k - 1) : f[m].indent_level > f[i].indent_level)
    ELSE 0

\* the lines that yield an element are those with a tag, a type and a length whose
\* value does not raise, each with its indentation, in the order of the lines, and a
\* value of an INTEGER line that is no decimal number is 0
SkipsAndZero(text, parsed) ==
    /\ Len(parsed) = Len(AcceptedNumbers(text))
    /\ \A k \in 1..Len(parsed) :
           /\ parsed[k].tag = PStr(TagOnLine(TextLines(text)[AcceptedNumbers(text)[k]]))
           /\ parsed[k].type = PStr(TypeOnLine(TextLines(text)[AcceptedNumbers(text)[k]]))
           /\ parsed[k].indent_level = LeadingSpaces(TextLines(text)[AcceptedNumbers(text)[k]])
           /\ (/\ parsed[k].type = PStr(s_INTEGER)
               /\ ~IsDecimalLiteral(ValueOnLine(TextLines(text)[AcceptedNumbers(text)[k]])))
                  => parsed[k].value = N(0)

\* the elements under a skipped structure header are appended to the nearest
\* structure that is still open
OrphansToNearestOpen(text, f) ==
    \A h \in 1..Len(TextLines(text)) :
        SkippedHeader(text, h) =>
            \A k \in 1..Len(f) :
                (k <= Len(AcceptedNumbers(text)) /\ Under(text, AcceptedNumbers(text)[k], h)) =>
                    f[k].parent = NearestOpen(f, k)

\* C29: parse_structured_text returns for every text; a line without ':' or without
\* a parenthesised length yields no element, an INTEGER line whose literal is no
\* decimal number yields the value 0, the lines after such lines yield their
\* elements, and the lines indented under a skipped structure header are appended to
\* the nearest structure that is still open.
C29_MalformedLinesSkipped ==
    /\ tpc # "parse" => Parsed \/ tpc = "idle"
    /\ Parsed =>
           /\ SkipsAndZero(text_content, DocOrder(structured_elements))
           /\ OrphansToNearestOpen(text_content, Flatten(structured_elements, 0, 0))

\* the part that holds of every text: which lines are skipped, the value 0, and the
\* lines after them
C29_SkippedAndLaterParsed ==
    Parsed => SkipsAndZero(text_content, DocOrder(structured_elements))

\* under a skipped header at indentation 0, REQUEST_HEADER and BATCH_ITEM stand at
\* indentation 1; BATCH_ITEM is made a child of REQUEST_HEADER
C29_SiblingUnderSkippedHeader ==
    /\ Parsed
    /\ Len(TextLines(text_content)) = 4
    /\ SkippedHeader(text_content, 1)
    /\ Len(structured_elements) = 1
    /\ structured_elements[1].tag = PStr(s_REQUEST_HEADER)
    /\ Len(structured_elements[1].children) = 2
    /\ structured_elements[1].children[2].tag = PStr(s_BATCH_ITEM)
    /\ structured_elements[1].children[2].indent_level = 1

\* a header without ':' is skipped and the INTEGER 'abc' and the ENUMERATION under it
\* are children of the enclosing REQUEST_MESSAGE, the INTEGER with the value 0; the
\* line after them is parsed
C29_OrphansAdopted ==
    /\ Parsed
    /\ Len(TextLines(text_content)) = 5
    /\ SkippedHeader(text_content, 2)
    /\ Len(structured_elements) = 2
    /\ Len(structured_elements[1].children) = 2
    /\ structured_elements[1].children[1].value = N(0)
    /\ structured_elements[1].children[1].indent_level = 2
    /\ structured_elements[2].value = N(2)

(* ------------------------------ C30 ----------------------------------- *)

\* a character of a registry name: a capital letter, a digit or '_'
IsNameChar(c) == IsTagChar(c) \/ IsDigit(c)

\* what stands between '(' and ')' on a line with a tag, a type and a length
LengthOnLine(line) == After(Before(AfterTag(line), 41), 40)

\* the value of the line is one its type admits: a decimal number for the integer
\* types, hex digits inside b'...' for BYTE_STRING
ValueFits(line) ==
    /\ TypeOnLine(line) \in {s_INTEGER, s_LONG_INTEGER, s_BIG_INTEGER, s_INTERVAL}
           => IsDecimalLiteral(ValueOnLine(line))
    /\ ~BrokenHex(line)

\* the line is spaces, then TAG:TYPE(length):value with a tag of name characters, a
\* type of the type registry, a length of digits and a value its type admits
WellFormedLine(line) ==
    /\ \A i \in 1..LeadingSpaces(line) : line[i] = 32
    /\ Strip(line) = LStrip(line)
    /\ HasTagTypeLength(line)
    /\ Before(Strip(line), 58) # <<>>
    /\ \A i \in 1..Len(Before(Strip(line), 58)) : IsNameChar(Before(Strip(line), 58)[i])
    /\ Before(AfterTag(line), 40) \in DOMAIN TypesTable
    /\ LengthOnLine(line) # <<>>
    /\ \A i \in 1..Len(LengthOnLine(line)) : IsDigit(LengthOnLine(line)[i])
    /\ StartsWith(After(AfterTag(line), 41), <<58>>)
    /\ ValueFits(line)

\* every line is well-formed, the first line is not indented, a line is indented at
\* most one space deeper than the line before it, and only under a STRUCTURE line
Regular(text) ==
    /\ text # <<>>
    /\ Strip(text) = text
    /\ \A i \in 1..Len(TextLines(text)) : WellFormedLine(TextLines(text)[i])
    /\ \A i \in 2..Len(TextLines(text)) :
           /\ LeadingSpaces(TextLines(text)[i]) <= LeadingSpaces(TextLines(text)[i - 1]) + 1
           /\ LeadingSpaces(TextLines(text)[i]) = LeadingSpaces(TextLines(text)[i - 1]) + 1
                  => TypeOnLine(TextLines(text)[i - 1]) = s_STRUCTURE

\* every line has a type and a tag the pattern of parse_structured_line knows
ConverterLines(text) ==
    \A i \in 1..Len(TextLines(text)) :
        /\ TypeOnLine(TextLines(text)[i]) \in LineTypes
        /\ \A k \in 1..Len(TagOnLine(TextLines(text)[i])) : IsTagChar(TagOnLine(TextLines(text)[i])[k])

RECURSIVE Shape(_)
\* the tags, types, nesting and child order of a list of elements
Shape(elements) ==
    [i \in 1..Len(elements) |->
        [tag |-> elements[i].tag, type |-> elements[i].type,
         kids |-> IF elements[i].value.k = "list" THEN Shape(elements[i].value.kids)
                  ELSE <<>>]]

\* the tree parse_structured_text and convert_structured_to_flat build of the file
FlatOfFile == convert_structured_to_flat(parse_structured_text(file_content))

\* C30: for a structured text in which every line is well-formed, the first line has
\* indentation 0, indentation is one space per level and only STRUCTURE lines have
\* lines under them, convert_structured_to_json returns a tree with the tags, types,
\* nesting and child order of the tree parse_structured_text and
\* convert_structured_to_flat build.
C30_SameTrees ==
    (fpc # "idle" /\ command = "to_json" /\ Regular(file_content)) =>
        /\ fpc = "converted"
        /\ Shape(json_data) = Shape(FlatOfFile)

\* the same of the texts whose lines have one of the eight types and a tag of capital
\* letters and '_' only, which is what the pattern of the converter admits
C30_SameTreesOfConverterLines ==
    (/\ fpc # "idle" /\ command = "to_json" /\ Regular(file_content)
     /\ ConverterLines(file_content)) =>
        /\ fpc = "converted"
        /\ Shape(json_data) = Shape(FlatOfFile)

\* BATCH_ITEM with an INTERVAL and an INTEGER under it: the converter returns
\* BATCH_ITEM with one child, the parser with two
C30_IntervalLineDropped ==
    /\ fpc = "converted" /\ command = "to_json"
    /\ Regular(file_content)
    /\ Len(TextLines(file_content)) = 3
    /\ TypeOnLine(TextLines(file_content)[2]) = s_INTERVAL
    /\ Len(json_data) = 1 /\ Len(json_data[1].value.kids) = 1
    /\ Len(FlatOfFile) = 1 /\ Len(FlatOfFile[1].value.kids) = 2

\* a structure whose tag holds digits is not in the converter's tree, and its child is
\* a top-level element there
C30_DigitTagDropped ==
    /\ fpc = "converted" /\ command = "to_json"
    /\ Regular(file_content)
    /\ TagOnLine(TextLines(file_content)[1]) = s_X_509_CERTIFICATE_IDENTIFIER
    /\ Len(json_data) = 1 /\ json_data[1].tag = T(s_BATCH_COUNT)
    /\ Len(FlatOfFile) = 1 /\ FlatOfFile[1].tag = T(s_X_509_CERTIFICATE_IDENTIFIER)

\* a text of six lines nested three levels deep gives the same tree both ways
C30_SameTreeThreeLevels ==
    /\ fpc = "converted" /\ command = "to_json"
    /\ Regular(file_content) /\ ConverterLines(file_content)
    /\ Len(TextLines(file_content)) = 6
    /\ Len(json_data) = 2
    /\ Len(json_data[1].value.kids) = 2
    /\ Len(json_data[1].value.kids[1].value.kids) = 1
    /\ Len(json_data[1].value.kids[1].value.kids[1].value.kids) = 1
    /\ Shape(json_data) = Shape(FlatOfFile)
====
